---- MODULE Spec2Model ----
(***************************************************************************)
(* Real-Time-Analytics: the in-memory aggregation engine                   *)
(* (internal/aggregation) and the ingestion pipeline (internal/server,     *)
(* cmd/server).                                                            *)
(*                                                                         *)
(* Time is counted in units of 150 seconds.  The aggregator is modelled    *)
(* with a window duration of two units (five minutes), so that truncation  *)
(* to the window start is not the identity.  A Metric's Timestamp field    *)
(* (time of last update) is not kept: nothing reads it.                    *)
(*                                                                         *)
(* Spec      the aggregator used as a library: goroutines calling          *)
(*           ProcessEvent, the flush loop of Aggregator.Start, the clock.  *)
(* PipeSpec  the ingestion pipeline of cmd/server/main.go: HTTP handlers,  *)
(*           the buffered channel, the worker pool, the shutdown sequence. *)
(* WmSpec, BatchSpec, MetricSpec, PurchaseSpec: the WindowManager, the     *)
(*           batch handler, Metric and MetricsSnapshot, and the aggregator *)
(*           fed with purchases, each on its own.                          *)
(* PipeLiveSpec  the pipeline with the fairness of its scheduling.         *)
(* FlushLiveSpec the aggregator with the fairness of its flush loop.       *)
(* TimedSpec, MistypedSpec, OtherTypeSpec: the aggregator with the clock   *)
(*           and no callback, and fed with mistyped properties and with    *)
(*           events of other types.                                        *)
(***************************************************************************)
EXTENDS Integers, Sequences, FiniteSets, TLC

\* ------------------------------------------------------------------ bounds
MaxTime == 5
MaxCalls == 2

\* --------------------------------------------------------- program constants
\* NewAggregator(windowDuration, ...): the duration the aggregator is built with
WindowDuration == 2
\* Aggregator.cleanup: a.windowManager.Cleanup(5 * time.Minute), in time units
CleanupKeep == 2

\* the goroutines that call ProcessEvent
Callers == {"c1", "c2"}

\* --------------------------------------------------------------- metrics.go
MetricTypeCounter == "counter"
MetricTypeGauge == "gauge"
MetricTypeHistogram == "histogram"
MetricTypeSet == "set"

NewMetric(name, metricType) ==
    [Name |-> name, Type |-> metricType, Value |-> 0, Count |-> 0,
     Values |-> <<>>, UniqueSet |-> {}]

Increment(m) ==
    [m EXCEPT !.Count = @ + 1, !.Value = @ + 1]

IncrementByValueOnCount(m, value) ==
    [m EXCEPT !.Value = @ + value, !.Count = @ + value]

IncrementBy(m, value) ==
    [m EXCEPT !.Value = @ + value, !.Count = @ + 1]

Set(m, value) ==
    [m EXCEPT !.Value = value]

Observe(m, value) ==
    [m EXCEPT !.Values = Append(@, value), !.Count = @ + 1, !.Value = @ + value]

AddUniqueStaleCount(m, value) ==
    [m EXCEPT !.UniqueSet = @ \cup {value}, !.Count = Cardinality(m.UniqueSet)]

AddUniqueCounting(m, value) ==
    [m EXCEPT !.UniqueSet = @ \cup {value}, !.Count = @ + 1]

AddUnique(m, value) ==
    [m EXCEPT !.UniqueSet = @ \cup {value},
              !.Count = Cardinality(m.UniqueSet \cup {value})]

AverageUnguarded(m) == <<m.Value, m.Count>>

\* Average(): m.Value / float64(m.Count), kept as the fraction
\* <<numerator, denominator>>; 0 when Count is 0
Average(m) == IF m.Count = 0 THEN <<0, 1>> ELSE <<m.Value, m.Count>>

\* A MetricsSnapshot is the map Metrics: name -> Metric.
NewMetricsSnapshot == [n \in {} |-> NewMetric("", MetricTypeCounter)]

\* GetMetric: the map after get-or-create of name; the metric returned is
\* the one the resulting map holds under name.
GetMetric(ms, name, metricType) ==
    IF name \in DOMAIN ms THEN ms
    ELSE (name :> NewMetric(name, metricType)) @@ ms

\* GetMetricValue: <<metric.Value, exists>>
GetMetricValue(ms, name) ==
    IF name \in DOMAIN ms THEN <<ms[name].Value, TRUE>> ELSE <<0, FALSE>>

\* Count of a metric of a snapshot, 0 when the metric was never created
CountOf(ms, name) ==
    IF name \in DOMAIN ms THEN ms[name].Count ELSE 0

\* ms.GetMetric(name, type).Increment()
GetAndIncrement(ms, name) ==
    LET ms1 == GetMetric(ms, name, MetricTypeCounter)
    IN  [ms1 EXCEPT ![name] = Increment(@)]

\* u := ms.GetMetric(name, MetricTypeSet); if value != "" { u.AddUnique(value) }
GetAndAddUniqueIfSet(ms, name, value) ==
    LET ms1 == GetMetric(ms, name, MetricTypeSet)
    IN  IF value /= "" THEN [ms1 EXCEPT ![name] = AddUnique(@, value)] ELSE ms1

\* --------------------------------------------------------------- time windows
TruncateNothing(t, d) == t

\* t.Truncate(d): t rounded down to a multiple of d
Truncate(t, d) == t - (t % d)

NewTimeWindow(startTime, duration) ==
    [StartTime |-> startTime, EndTime |-> startTime + duration,
     Duration |-> duration, Metrics |-> NewMetricsSnapshot, Closed |-> FALSE]

IsActiveAtEnd(tw, t) == ~tw.Closed /\ t <= tw.EndTime

IsActive(tw, t) == ~tw.Closed /\ t < tw.EndTime

ShouldCloseAtEnd(tw, t) == ~tw.Closed /\ t >= tw.EndTime

ShouldClose(tw, t) == ~tw.Closed /\ t > tw.EndTime

CloseToggles(tw) == [tw EXCEPT !.Closed = ~@]

Close(tw) == [tw EXCEPT !.Closed = TRUE]


\* ------------------------------------------------------------- aggregator.go
\* A value of the dynamic map Properties: a JSON string or a JSON number
Str(s) == [kind |-> "string", s |-> s, n |-> 0]
Num(n) == [kind |-> "number", s |-> "", n |-> n]
NoProperties == [k \in {} |-> Str("")]

Event(type, ts, user, session, props) ==
    [Type |-> type, Timestamp |-> ts, UserID |-> user, SessionID |-> session,
     Properties |-> props]

NoEvent == Event("", 0, "", "", NoProperties)

\* v, ok := event.Properties[key].(string)
IsString(e, key) == key \in DOMAIN e.Properties /\ e.Properties[key].kind = "string"
\* v, ok := event.Properties[key].(float64)
IsNumber(e, key) == key \in DOMAIN e.Properties /\ e.Properties[key].kind = "number"

\* the events the callers of ProcessEvent submit
EventInputs ==
    { Event("pageview", 0, "u1", "s1", "page" :> Str("/home")),
      Event("pageview", 1, "u2", "", "page" :> Str("/home")),
      Event("click", 2, "u1", "s1", "element" :> Str("buy")),
      Event("purchase", 0, "", "s1", "amount" :> Num(5)),
      Event("signup", 2, "u2", "", NoProperties) }

VARIABLES
    now,            \* the wall clock, time.Now()
    globalMetrics,  \* Aggregator.globalMetrics.Metrics
    aMu,            \* Aggregator.mu: "free" or the caller holding the write lock
    windows,        \* every TimeWindow object ever allocated, by identity 1..
    wmWindows,      \* WindowManager.Windows: the identities it holds, in order
    pc,             \* where each caller is inside ProcessEvent
    cur,            \* the event each caller is processing
    win,            \* the window GetOrCreateWindow returned to each caller
    processed,      \* history: how often each event was handed to ProcessEvent
    onWindowClosed, \* Aggregator.onWindowClosed: TRUE when a callback is set
    ctxDone,        \* the ctx given to Aggregator.Start is cancelled
    flushPc,        \* where the goroutine running Aggregator.Start is
    closedWindows,  \* flushExpiredWindows: the list CloseExpiredWindows returned
    cbIdx,          \* flushExpiredWindows: position in the range loop
    hist            \* history, per window: returns by CloseExpiredWindows,
                    \* callback invocations, callback panics

aggVars == <<now, globalMetrics, aMu, windows, wmWindows, pc, cur, win,
             processed, onWindowClosed, ctxDone, flushPc, closedWindows,
             cbIdx, hist>>

VARIABLES
    eventQueue,     \* the buffered channel: the events it holds, oldest first
    reqs,           \* the HTTP requests so far: body, state, response status
    httpAccepting,  \* the HTTP server accepts new requests
    mainPc,         \* where main is
    workerCtxDone,  \* main called cancel() on the workers' context
    wpc,            \* where each worker is
    workerCount,    \* processEvents: the local counter processed of each worker
    accepted,       \* history: the requests whose event entered the queue, in order
    dequeued,       \* history: <<request, worker>> for every event received
    cancelMark      \* history: Len(accepted) when cancel() was called

pipeVars == <<eventQueue, reqs, httpAccepting, mainPc, workerCtxDone, wpc,
              workerCount, accepted, dequeued, cancelMark>>

VARIABLES
    gocLog,         \* history: the GetOrCreateWindow calls made on the
                    \* WindowManager used as a library, in the order wm.mu
                    \* serialized them
    batches,        \* the POST /events/batch requests so far: body, position
                    \* of the handler, its counters, the response
    bindDives       \* the gin build in use validates the elements of a bound
                    \* slice (gin 1.7 and later) or only bound structs

batchVars == <<batches, bindDives>>

\* a MetricsSnapshot used as a library by goroutines
VARIABLES
    metricObjs,     \* every Metric object allocated, by identity 1..
    metricMu,       \* Metric.mu of each object: "free" or the goroutine holding it
    msMetrics,      \* MetricsSnapshot.Metrics: name -> identity of its Metric
    gpc,            \* where each goroutine is
    gptr,           \* the *Metric each goroutine holds (0: none)
    gop,            \* the mutator each goroutine is executing, with the state
                    \* of the Metric when it took the lock
    obs,            \* the last read made: who read, which Metric, what was returned
    opLog,          \* history, per Metric: the mutations completed, in order
    getHist         \* history of GetMetric: the name each goroutine asked for
                    \* when it got the *Metric it holds, and the kind each
                    \* Metric was created with

metricVars == <<metricObjs, metricMu, msMetrics, gpc, gptr, gop, obs, opLog, getHist>>

libVars == <<gocLog, batchVars, metricVars>>

vars == <<aggVars, pipeVars, libVars>>

NoHist == [returned |-> 0, delivered |-> 0, panicked |-> 0, expiredAtStop |-> FALSE]

AggInit ==
    /\ now = 0
    /\ globalMetrics = NewMetricsSnapshot
    /\ aMu = "free"
    /\ windows = <<>>
    /\ wmWindows = <<>>
    /\ pc = [c \in Callers |-> "idle"]
    /\ cur = [c \in Callers |-> NoEvent]
    /\ win = [c \in Callers |-> 0]
    /\ processed = [e \in {} |-> 0]
    /\ onWindowClosed \in BOOLEAN
    /\ ctxDone = FALSE
    /\ flushPc = "select"
    /\ closedWindows = <<>>
    /\ cbIdx = 0
    /\ hist = <<>>

\* number of ProcessEvent calls made so far
Calls == LET RECURSIVE Sum(_)
             Sum(S) == IF S = {} THEN 0
                       ELSE LET e == CHOOSE x \in S : TRUE
                            IN  processed[e] + Sum(S \ {e})
         IN  Sum(DOMAIN processed)

LockIgnored == TRUE

\* a.mu.Lock() of updateGlobalMetrics succeeds
LockFree == aMu = "free"

\* a.mu.RLock() of the read APIs succeeds: no writer holds a.mu
RLockFree == aMu = "free"

\* GetGlobalMetrics(): under a.mu.RLock(), the copy of the map
GetGlobalMetrics == globalMetrics

\* ProcessEvent is called with event e: updateGlobalMetrics takes a.mu.Lock()
\* (it blocks while another caller holds the lock) and does
\* totalEvents.Increment()
ProcessEvent(c, e) ==
    /\ pc[c] = "idle"
    /\ Calls < MaxCalls
    /\ LockFree
    /\ aMu' = c
    /\ cur' = [cur EXCEPT ![c] = e]
    /\ processed' = IF e \in DOMAIN processed
                    THEN [processed EXCEPT ![e] = @ + 1]
                    ELSE (e :> 1) @@ processed
    /\ globalMetrics' = GetAndIncrement(globalMetrics, "total_events")
    /\ pc' = [pc EXCEPT ![c] = "update_global"]
    /\ UNCHANGED <<now, windows, wmWindows, win, onWindowClosed,
                   ctxDone, flushPc, closedWindows, cbIdx, hist>>
    /\ UNCHANGED <<pipeVars, libVars>>

EventTypeKey(e) == "events_by_type:" \o e.Type

processPageviewAnyPage(ms, e) ==
    LET page == IF "page" \in DOMAIN e.Properties THEN e.Properties["page"].s ELSE ""
        ms1 == GetAndIncrement(ms, "pageviews")
        ms2 == GetMetric(ms1, "unique_pages", MetricTypeSet)
        ms3 == [ms2 EXCEPT !["unique_pages"] = AddUnique(@, page)]
    IN  GetAndIncrement(ms3, "page_views:" \o page)

processPageviewMetrics(ms, e) ==
    LET ms1 == GetAndIncrement(ms, "pageviews")
    IN  IF IsString(e, "page")
        THEN LET page == e.Properties["page"].s
                 ms2 == GetMetric(ms1, "unique_pages", MetricTypeSet)
                 ms3 == [ms2 EXCEPT !["unique_pages"] = AddUnique(@, page)]
             IN  GetAndIncrement(ms3, "page_views:" \o page)
        ELSE ms1

processClickAsPageview(ms, e) ==
    GetAndIncrement(ms, "pageviews")

processClickMetrics(ms, e) ==
    LET ms1 == GetAndIncrement(ms, "clicks")
    IN  IF IsString(e, "element")
        THEN GetAndIncrement(ms1, "clicks:" \o e.Properties["element"].s)
        ELSE ms1

processPurchaseAnyAmount(ms, e) ==
    LET amount == IF "amount" \in DOMAIN e.Properties
                  THEN e.Properties["amount"].n ELSE 0
    IN  [GetMetric(GetMetric(GetAndIncrement(ms, "purchases"),
                             "revenue", MetricTypeCounter),
                   "revenue_histogram", MetricTypeHistogram)
            EXCEPT !["revenue"] = IncrementBy(@, amount),
                   !["revenue_histogram"] = Observe(@, amount)]

processPurchaseMetrics(ms, e) ==
    LET ms1 == GetAndIncrement(ms, "purchases")
    IN  IF IsNumber(e, "amount")
        THEN LET amount == e.Properties["amount"].n
                 ms2 == GetMetric(ms1, "revenue", MetricTypeCounter)
                 ms3 == [ms2 EXCEPT !["revenue"] = IncrementBy(@, amount)]
                 ms4 == GetMetric(ms3, "revenue_histogram", MetricTypeHistogram)
             IN  [ms4 EXCEPT !["revenue_histogram"] = Observe(@, amount)]
        ELSE ms1

ByTypeDefaultingToClick(ms, e) ==
    LET ms0 == GetAndIncrement(ms, EventTypeKey(e))
        ms1 == GetAndAddUniqueIfSet(ms0, "unique_users", e.UserID)
        ms2 == GetAndAddUniqueIfSet(ms1, "unique_sessions", e.SessionID)
    IN  CASE e.Type = "pageview" -> processPageviewMetrics(ms2, e)
          [] e.Type = "purchase" -> processPurchaseMetrics(ms2, e)
          [] OTHER -> processClickMetrics(ms2, e)

\* updateGlobalMetrics after totalEvents.Increment(): the counter of the
\* event's type, the unique users and sessions, the switch on event.Type
ByTypeUniquesAndSpecific(ms, e) ==
    LET ms0 == GetAndIncrement(ms, EventTypeKey(e))
        ms1 == GetAndAddUniqueIfSet(ms0, "unique_users", e.UserID)
        ms2 == GetAndAddUniqueIfSet(ms1, "unique_sessions", e.SessionID)
    IN  CASE e.Type = "pageview" -> processPageviewMetrics(ms2, e)
          [] e.Type = "click" -> processClickMetrics(ms2, e)
          [] e.Type = "purchase" -> processPurchaseMetrics(ms2, e)
          [] OTHER -> ms2

\* the rest of updateGlobalMetrics and the deferred a.mu.Unlock()
UpdateGlobalMetrics(c) ==
    /\ pc[c] = "update_global"
    /\ globalMetrics' = ByTypeUniquesAndSpecific(globalMetrics, cur[c])
    /\ aMu' = "free"
    /\ pc' = [pc EXCEPT ![c] = "get_window"]
    /\ UNCHANGED <<now, windows, wmWindows, cur, win, processed,
                   onWindowClosed, ctxDone, flushPc, closedWindows, cbIdx, hist>>
    /\ UNCHANGED <<pipeVars, libVars>>

\* --------------------------------------------------------- WindowManager
\* GetOrCreateWindow's search loop: the first window held by the manager with
\* StartTime equal to windowStart and not closed; 0 when there is none
RECURSIVE FirstMatch(_, _, _)
FirstMatch(ids, i, windowStart) ==
    IF i > Len(ids) THEN 0
    ELSE IF windows[ids[i]].StartTime = windowStart /\ ~windows[ids[i]].Closed
         THEN ids[i]
         ELSE FirstMatch(ids, i + 1, windowStart)

FindWindowNever(windowStart) == 0

FindWindowClosedOnly(windowStart) ==
    LET S == { i \in 1..Len(wmWindows) :
                 /\ windows[wmWindows[i]].StartTime = windowStart
                 /\ windows[wmWindows[i]].Closed }
    IN  IF S = {} THEN 0 ELSE wmWindows[CHOOSE i \in S : \A j \in S : i <= j]

FindWindowFirstOpen(windowStart) ==
    LET S == { i \in 1..Len(wmWindows) : ~windows[wmWindows[i]].Closed }
    IN  IF S = {} THEN 0 ELSE wmWindows[CHOOSE i \in S : \A j \in S : i <= j]

FindWindowByClock(windowStart) ==
    FirstMatch(wmWindows, 1, Truncate(now, WindowDuration))

FindWindow(windowStart) == FirstMatch(wmWindows, 1, windowStart)

\* ProcessEvent: window := a.windowManager.GetOrCreateWindow(event.Timestamp)
GetOrCreateWindow(c) ==
    /\ pc[c] = "get_window"
    /\ LET windowStart == Truncate(cur[c].Timestamp, WindowDuration)
           found == FindWindow(windowStart)
       IN  IF found /= 0
           THEN /\ win' = [win EXCEPT ![c] = found]
                /\ UNCHANGED <<windows, wmWindows, hist>>
           ELSE /\ windows' = Append(windows, NewTimeWindow(windowStart, WindowDuration))
                /\ wmWindows' = Append(wmWindows, Len(windows) + 1)
                /\ hist' = Append(hist, NoHist)
                /\ win' = [win EXCEPT ![c] = Len(windows) + 1]
    /\ pc' = [pc EXCEPT ![c] = "update_window"]
    /\ UNCHANGED <<now, globalMetrics, aMu, cur, processed, onWindowClosed,
                   ctxDone, flushPc, closedWindows, cbIdx>>
    /\ UNCHANGED <<pipeVars, libVars>>

WindowMetricsAfterTypeOnly(ms, e) ==
    GetAndAddUniqueIfSet(GetAndIncrement(ms, "events:" \o e.Type),
                         "active_users", e.UserID)

\* updateWindowMetrics(window, event) on a window's MetricsSnapshot
WindowMetricsAfter(ms, e) ==
    GetAndAddUniqueIfSet(
        GetAndIncrement(GetAndIncrement(ms, "events"), "events:" \o e.Type),
        "active_users", e.UserID)

\* ProcessEvent: a.updateWindowMetrics(window, event); ProcessEvent returns
UpdateWindowMetrics(c) ==
    /\ pc[c] = "update_window"
    /\ windows' = [windows EXCEPT ![win[c]].Metrics = WindowMetricsAfter(@, cur[c])]
    /\ pc' = [pc EXCEPT ![c] = "idle"]
    /\ cur' = [cur EXCEPT ![c] = NoEvent]
    /\ win' = [win EXCEPT ![c] = 0]
    /\ UNCHANGED <<now, globalMetrics, aMu, wmWindows, processed,
                   onWindowClosed, ctxDone, flushPc, closedWindows, cbIdx, hist>>
    /\ UNCHANGED <<pipeVars, libVars>>

ExpiredWindowsOncePerStart(t) ==
    SelectSeq(wmWindows, LAMBDA id :
        /\ ShouldClose(windows[id], t)
        /\ \A other \in 1..Len(windows) :
              windows[other].StartTime = windows[id].StartTime =>
                  ~windows[other].Closed)

\* CloseExpiredWindows(t): the windows it closes and returns, in list order
ExpiredWindows(t) ==
    SelectSeq(wmWindows, LAMBDA id : ShouldClose(windows[id], t))

\* GetActiveWindows(): the windows not closed, in list order
GetActiveWindows ==
    SelectSeq(wmWindows, LAMBDA id : ~windows[id].Closed)

KeptWindowsInclusive(keepDuration) ==
    SelectSeq(wmWindows, LAMBDA id :
        ~windows[id].Closed \/ now - windows[id].EndTime <= keepDuration)

\* Cleanup(keepDuration): the list it keeps
KeptWindows(keepDuration) ==
    SelectSeq(wmWindows, LAMBDA id :
        ~windows[id].Closed \/ now - windows[id].EndTime < keepDuration)

InSeq(x, seq) == \E i \in 1..Len(seq) : seq[i] = x

GetStatsAllWindows ==
    [total_events |-> GetMetricValue(globalMetrics, "total_events")[1],
     unique_users |-> GetMetricValue(globalMetrics, "unique_users")[1],
     unique_sessions |-> GetMetricValue(globalMetrics, "unique_sessions")[1],
     active_windows |-> Len(wmWindows),
     metrics_count |-> Cardinality(DOMAIN globalMetrics)]

\* GetStats(): under a.mu.RLock(), the map it returns (uptime left out)
GetStats ==
    [total_events |-> GetMetricValue(globalMetrics, "total_events")[1],
     unique_users |-> GetMetricValue(globalMetrics, "unique_users")[1],
     unique_sessions |-> GetMetricValue(globalMetrics, "unique_sessions")[1],
     active_windows |-> Len(GetActiveWindows),
     metrics_count |-> Cardinality(DOMAIN globalMetrics)]

\* ------------------------------------------------ Aggregator.Start, flush loop
\* case <-ticker.C: flushExpiredWindows() up to the range over closedWindows
FlushExpiredWindows ==
    /\ flushPc = "select"
    /\ LET closed == ExpiredWindows(now)
       IN  /\ windows' = [id \in 1..Len(windows) |->
                             IF InSeq(id, closed) THEN Close(windows[id])
                             ELSE windows[id]]
           /\ hist' = [id \in 1..Len(hist) |->
                          IF InSeq(id, closed)
                          THEN [hist[id] EXCEPT !.returned = @ + 1]
                          ELSE hist[id]]
           /\ IF Len(closed) > 0 /\ onWindowClosed
              THEN /\ closedWindows' = closed
                   /\ cbIdx' = 1
                   /\ flushPc' = "callback"
              ELSE /\ closedWindows' = <<>>
                   /\ cbIdx' = 0
                   /\ flushPc' = "cleanup"
    /\ UNCHANGED <<now, globalMetrics, aMu, wmWindows, pc, cur, win, processed,
                   onWindowClosed, ctxDone>>
    /\ UNCHANGED <<pipeVars, libVars>>

\* what an invocation of the callback can do: return, or panic
CallbackOutcomes == {"return", "panic"}

WindowClosedCallbackFirstOnly(outcome) ==
    /\ flushPc = "callback"
    /\ LET id == closedWindows[cbIdx]
       IN  hist' = [hist EXCEPT ![id].delivered = @ + 1,
                                ![id].panicked = @ + (IF outcome = "panic" THEN 1 ELSE 0)]
    /\ IF outcome = "panic"
       THEN /\ flushPc' = "panicked"
            /\ UNCHANGED <<closedWindows, cbIdx>>
       ELSE /\ cbIdx' = 0
            /\ closedWindows' = <<>>
            /\ flushPc' = "cleanup"
    /\ UNCHANGED <<now, globalMetrics, aMu, windows, wmWindows, pc, cur, win,
                   processed, onWindowClosed, ctxDone>>
    /\ UNCHANGED <<pipeVars, libVars>>

\* a.onWindowClosed(window) for the next window of the range loop; a panic of
\* the callback is not recovered and unwinds Start
WindowClosedCallback(outcome) ==
    /\ flushPc = "callback"
    /\ LET id == closedWindows[cbIdx]
       IN  hist' = [hist EXCEPT ![id].delivered = @ + 1,
                                ![id].panicked = @ + (IF outcome = "panic" THEN 1 ELSE 0)]
    /\ IF outcome = "panic"
       THEN /\ flushPc' = "panicked"
            /\ UNCHANGED <<closedWindows, cbIdx>>
       ELSE IF cbIdx < Len(closedWindows)
            THEN /\ cbIdx' = cbIdx + 1
                 /\ UNCHANGED <<flushPc, closedWindows>>
            ELSE /\ cbIdx' = 0
                 /\ closedWindows' = <<>>
                 /\ flushPc' = "cleanup"
    /\ UNCHANGED <<now, globalMetrics, aMu, windows, wmWindows, pc, cur, win,
                   processed, onWindowClosed, ctxDone>>
    /\ UNCHANGED <<pipeVars, libVars>>

\* a.cleanup(): a.windowManager.Cleanup(5 * time.Minute)
Cleanup ==
    /\ flushPc = "cleanup"
    /\ wmWindows' = KeptWindows(CleanupKeep)
    /\ flushPc' = "select"
    /\ UNCHANGED <<now, globalMetrics, aMu, windows, pc, cur, win, processed,
                   onWindowClosed, ctxDone, closedWindows, cbIdx, hist>>
    /\ UNCHANGED <<pipeVars, libVars>>

\* the owner of the context cancels it
CancelContext ==
    /\ ~ctxDone
    /\ ctxDone' = TRUE
    /\ UNCHANGED <<now, globalMetrics, aMu, windows, wmWindows, pc, cur, win,
                   processed, onWindowClosed, flushPc, closedWindows, cbIdx, hist>>
    /\ UNCHANGED <<pipeVars, libVars>>

\* case <-ctx.Done(): log and return.  History: the windows that a sweep at
\* this instant would have closed.
FlushStop ==
    /\ flushPc = "select"
    /\ ctxDone
    /\ flushPc' = "stopped"
    /\ hist' = [id \in 1..Len(hist) |->
                   [hist[id] EXCEPT !.expiredAtStop =
                        InSeq(id, wmWindows) /\ ShouldClose(windows[id], now)]]
    /\ UNCHANGED <<now, globalMetrics, aMu, windows, wmWindows, pc, cur, win,
                   processed, onWindowClosed, ctxDone, closedWindows, cbIdx>>
    /\ UNCHANGED <<pipeVars, libVars>>

\* a minute passes
ClockTick ==
    /\ now < MaxTime
    /\ now' = now + 1
    /\ UNCHANGED <<globalMetrics, aMu, windows, wmWindows, pc, cur, win,
                   processed, onWindowClosed, ctxDone, flushPc, closedWindows,
                   cbIdx, hist>>
    /\ UNCHANGED <<pipeVars, libVars>>

\* ------------------------------------------- internal/server and cmd/server
\* cfg.Processing.BufferSize: capacity of the eventQueue channel
BufferSize == 2
MaxRequests == 3
\* the worker goroutines started by main (cfg.Processing.WorkerCount of them)
Workers == {"w1", "w2"}

\* time.Time{}: the zero time of an event that carries no timestamp
ZeroTime == -1

ServerEvent(id, type, ts, user, session, props) ==
    [ID |-> id, Type |-> type, Timestamp |-> ts, UserID |-> user,
     SessionID |-> session, Properties |-> props]

\* the JSON bodies clients post to /api/v1/events
EventBodies ==
    { ServerEvent("", "pageview", ZeroTime, "u1", "s1", "page" :> Str("/home")),
      ServerEvent("e1", "click", 1, "u2", "", "element" :> Str("buy")),
      ServerEvent("", "", ZeroTime, "", "", NoProperties) }


PipeInit ==
    /\ eventQueue = <<>>
    /\ reqs = <<>>
    /\ httpAccepting = TRUE
    /\ mainPc = "serving"
    /\ workerCtxDone = FALSE
    /\ wpc = [w \in Workers |-> "select"]
    /\ workerCount = [w \in Workers |-> 0]
    /\ accepted = <<>>
    /\ dequeued = <<>>
    /\ cancelMark = 0

\* the process is alive: main has not returned
Running == mainPc /= "complete"

\* a client posts a single event; gin starts the handler
PostEvent(body) ==
    /\ Running
    /\ httpAccepting
    /\ Len(reqs) < MaxRequests
    /\ reqs' = Append(reqs, [kind |-> "single", body |-> body,
                             state |-> "inflight", status |-> 0])
    /\ UNCHANGED <<eventQueue, httpAccepting, mainPc, workerCtxDone, wpc,
                   workerCount, accepted, dequeued, cancelMark>>
    /\ UNCHANGED <<aggVars, libVars>>

\* an answered request: the handler has returned, its body is garbage
Answered(req, status) ==
    [req EXCEPT !.state = "done", !.status = status,
                !.body = ServerEvent("", "", ZeroTime, "", "", NoProperties)]

\* c.ShouldBindJSON(&event) fails: Type is tagged binding:"required"
BindFails(body) == body.Type = ""

\* handleEvent: the defaults for a missing timestamp and a missing id
WithDefaults(body, r) ==
    [body EXCEPT
        !.Timestamp = IF body.Timestamp = ZeroTime THEN now ELSE @,
        !.ID = IF body.ID = "" THEN "evt_" \o ToString(now) ELSE @]

TrySendOffByOne(q, e) ==
    IF Len(q) < BufferSize - 1
    THEN [queue |-> Append(q, e), sent |-> TRUE]
    ELSE [queue |-> q, sent |-> FALSE]

TrySendFront(q, e) ==
    IF Len(q) < BufferSize
    THEN [queue |-> <<e>> \o q, sent |-> TRUE]
    ELSE [queue |-> q, sent |-> FALSE]

\* select { case s.eventQueue <- event: ... default: ... }
TrySend(q, e) ==
    IF Len(q) < BufferSize
    THEN [queue |-> Append(q, e), sent |-> TRUE]
    ELSE [queue |-> q, sent |-> FALSE]

\* handleEvent runs for in-flight request r and answers it
HandleEvent(r) ==
    /\ Running
    /\ r \in 1..Len(reqs)
    /\ reqs[r].kind = "single"
    /\ reqs[r].state = "inflight"
    /\ IF BindFails(reqs[r].body)
       THEN /\ reqs' = [reqs EXCEPT ![r] = Answered(@, 400)]
            /\ UNCHANGED <<eventQueue, accepted>>
       ELSE LET event == WithDefaults(reqs[r].body, r)
                send == TrySend(eventQueue, [req |-> r, event |-> event])
            IN  /\ eventQueue' = send.queue
                /\ IF send.sent
                   THEN /\ reqs' = [reqs EXCEPT ![r] = Answered(@, 202)]
                        /\ accepted' = Append(accepted, r)
                   ELSE /\ reqs' = [reqs EXCEPT ![r] = Answered(@, 503)]
                        /\ UNCHANGED accepted
    /\ UNCHANGED <<httpAccepting, mainPc, workerCtxDone, wpc, workerCount,
                   dequeued, cancelMark>>
    /\ UNCHANGED <<aggVars, libVars>>

WorkerReceiveKeeping(w) ==
    /\ Running
    /\ wpc[w] = "select"
    /\ eventQueue /= <<>>
    /\ Len(dequeued) < MaxRequests
    /\ workerCount' = [workerCount EXCEPT ![w] = @ + 1]
    /\ dequeued' = Append(dequeued, <<Head(eventQueue).req, w>>)
    /\ UNCHANGED <<eventQueue, reqs, httpAccepting, mainPc, workerCtxDone, wpc,
                   accepted, cancelMark>>
    /\ UNCHANGED <<aggVars, libVars>>

\* processEvents: case event := <-eventQueue: processed++ and a debug log
\* (the event is not handed to any aggregator)
WorkerReceive(w) ==
    /\ Running
    /\ wpc[w] = "select"
    /\ eventQueue /= <<>>
    /\ eventQueue' = Tail(eventQueue)
    /\ workerCount' = [workerCount EXCEPT ![w] = @ + 1]
    /\ dequeued' = Append(dequeued, <<Head(eventQueue).req, w>>)
    /\ UNCHANGED <<reqs, httpAccepting, mainPc, workerCtxDone, wpc, accepted,
                   cancelMark>>
    /\ UNCHANGED <<aggVars, libVars>>

\* processEvents: case <-ticker.C: log the rate and reset processed
WorkerStats(w) ==
    /\ Running
    /\ wpc[w] = "select"
    /\ workerCount[w] > 0
    /\ workerCount' = [workerCount EXCEPT ![w] = 0]
    /\ UNCHANGED <<eventQueue, reqs, httpAccepting, mainPc, workerCtxDone, wpc,
                   accepted, dequeued, cancelMark>>
    /\ UNCHANGED <<aggVars, libVars>>

CtxNeverDone == FALSE

\* <-ctx.Done() is ready: cancel() was called on the workers' context
CtxDone == workerCtxDone

\* processEvents: case <-ctx.Done(): return
WorkerStop(w) ==
    /\ Running
    /\ wpc[w] = "select"
    /\ CtxDone
    /\ wpc' = [wpc EXCEPT ![w] = "stopped"]
    /\ UNCHANGED <<eventQueue, reqs, httpAccepting, mainPc, workerCtxDone,
                   workerCount, accepted, dequeued, cancelMark>>
    /\ UNCHANGED <<aggVars, libVars>>

\* main: case sig := <-quit; srv.Shutdown(shutdownCtx) closes the listeners
ShutdownSignal ==
    /\ mainPc = "serving"
    /\ mainPc' = "http_shutdown"
    /\ httpAccepting' = FALSE
    /\ UNCHANGED <<eventQueue, reqs, workerCtxDone, wpc, workerCount, accepted,
                   dequeued, cancelMark>>
    /\ UNCHANGED <<aggVars, libVars>>

\* srv.Shutdown returns: every connection is idle, or shutdownCtx expired
\* (the error is logged and main goes on)
HttpShutdownReturns(timedOut) ==
    /\ mainPc = "http_shutdown"
    /\ timedOut \/ \A r \in 1..Len(reqs) : reqs[r].state = "done"
    /\ mainPc' = "cancel"
    /\ UNCHANGED <<eventQueue, reqs, httpAccepting, workerCtxDone, wpc,
                   workerCount, accepted, dequeued, cancelMark>>
    /\ UNCHANGED <<aggVars, libVars>>

\* main: cancel()
CancelWorkers ==
    /\ mainPc = "cancel"
    /\ workerCtxDone' = TRUE
    /\ cancelMark' = Len(accepted)
    /\ mainPc' = "waiting"
    /\ UNCHANGED <<eventQueue, reqs, httpAccepting, wpc, workerCount, accepted,
                   dequeued>>
    /\ UNCHANGED <<aggVars, libVars>>

AllWorkersStopped == \A w \in Workers : wpc[w] = "stopped"

\* main: case <-done (wg.Wait() returned) or case <-time.After(10 * time.Second)
WaitReturns(timedOut) ==
    /\ mainPc = "waiting"
    /\ timedOut \/ AllWorkersStopped
    /\ mainPc' = "complete"
    /\ UNCHANGED <<eventQueue, reqs, httpAccepting, workerCtxDone, wpc,
                   workerCount, accepted, dequeued, cancelMark>>
    /\ UNCHANGED <<aggVars, libVars>>

PipeNext ==
    \/ \E body \in EventBodies : PostEvent(body)
    \/ \E r \in 1..MaxRequests : HandleEvent(r)
    \/ \E w \in Workers : WorkerReceive(w)
    \/ \E w \in Workers : WorkerStats(w)
    \/ \E w \in Workers : WorkerStop(w)
    \/ ShutdownSignal
    \/ \E timedOut \in BOOLEAN : HttpShutdownReturns(timedOut)
    \/ CancelWorkers
    \/ \E timedOut \in BOOLEAN : WaitReturns(timedOut)

AggNext ==
    \/ \E c \in Callers, e \in EventInputs : ProcessEvent(c, e)
    \/ \E c \in Callers : UpdateGlobalMetrics(c)
    \/ \E c \in Callers : GetOrCreateWindow(c)
    \/ \E c \in Callers : UpdateWindowMetrics(c)
    \/ FlushExpiredWindows
    \/ \E outcome \in CallbackOutcomes : WindowClosedCallback(outcome)
    \/ Cleanup
    \/ CancelContext
    \/ FlushStop
    \/ ClockTick

\* the goroutines that use a MetricsSnapshot and its Metrics directly
Goroutines == {"g1", "g2"}

\* the goroutines that read; the goroutines run the same code, so letting one
\* of them read while both mutate covers every interleaving up to their names
Readers == {"g2"}

NoCall == [op |-> "none", num |-> 0, str |-> "", base |-> NewMetric("", MetricTypeCounter)]

NoObs == [kind |-> "none", g |-> "", metric |-> 0, seen |-> NewMetric("", MetricTypeCounter),
          avg |-> <<0, 1>>, value |-> <<0, FALSE>>]

MetricInit ==
    /\ metricObjs = <<>>
    /\ metricMu = <<>>
    /\ msMetrics = [n \in {} |-> 0]
    /\ gpc = [g \in Goroutines |-> "idle"]
    /\ gptr = [g \in Goroutines |-> 0]
    /\ gop = [g \in Goroutines |-> NoCall]
    /\ obs = NoObs
    /\ opLog = <<>>
    /\ getHist = [name |-> [g \in Goroutines |-> ""], kind |-> <<>>]

LibInit ==
    /\ gocLog = <<>>
    /\ batches = <<>>
    /\ bindDives = TRUE
    /\ MetricInit

\* the aggregator as a library
Init == AggInit /\ PipeInit /\ LibInit
Next == AggNext
Spec == Init /\ [][Next]_vars

\* the ingestion pipeline; main builds no Aggregator
PipeSpecInit == AggInit /\ ~onWindowClosed /\ PipeInit /\ LibInit
PipeSpec == PipeSpecInit /\ [][PipeNext]_vars

\* ------------------------------------------- the WindowManager as a library
\* Goroutines holding a *WindowManager call its methods directly; every method
\* runs under wm.mu, so the calls take effect one at a time.
MaxWmCalls == 3

\* the instants passed to GetOrCreateWindow
WmTimes == 0..3

\* the instants passed to CloseExpiredWindows
WmCloseTimes == {2, 3, 5}

\* the keepDuration arguments passed to Cleanup
KeepDurations == {1, CleanupKeep}

\* the identities of the closed windows among the windows allocated so far
ClosedIds == { id \in 1..Len(windows) : windows[id].Closed }

\* wm.GetOrCreateWindow(t)
WmGetOrCreateWindow(t) ==
    /\ Len(gocLog) < MaxWmCalls
    /\ LET windowStart == Truncate(t, WindowDuration)
           found == FindWindow(windowStart)
           returned == IF found /= 0 THEN found ELSE Len(windows) + 1
       IN  /\ IF found /= 0
              THEN UNCHANGED <<windows, wmWindows>>
              ELSE /\ windows' = Append(windows, NewTimeWindow(windowStart, WindowDuration))
                   /\ wmWindows' = Append(wmWindows, Len(windows) + 1)
           /\ gocLog' = Append(gocLog, [t |-> t, window |-> returned,
                                        closedThen |-> ClosedIds])
    /\ UNCHANGED <<now, globalMetrics, aMu, pc, cur, win, processed,
                   onWindowClosed, ctxDone, flushPc, closedWindows, cbIdx, hist>>
    /\ UNCHANGED <<pipeVars, batchVars, metricVars>>

\* wm.CloseExpiredWindows(t)
WmCloseExpiredWindows(t) ==
    /\ LET closed == ExpiredWindows(t)
       IN  windows' = [id \in 1..Len(windows) |->
                          IF InSeq(id, closed) THEN Close(windows[id])
                          ELSE windows[id]]
    /\ UNCHANGED <<now, globalMetrics, aMu, wmWindows, pc, cur, win, processed,
                   onWindowClosed, ctxDone, flushPc, closedWindows, cbIdx, hist>>
    /\ UNCHANGED <<pipeVars, libVars>>

\* wm.Cleanup(keepDuration)
WmCleanup(keepDuration) ==
    /\ wmWindows' = KeptWindows(keepDuration)
    /\ UNCHANGED <<now, globalMetrics, aMu, windows, pc, cur, win, processed,
                   onWindowClosed, ctxDone, flushPc, closedWindows, cbIdx, hist>>
    /\ UNCHANGED <<pipeVars, libVars>>

\* window.Close() by a holder of the *TimeWindow, also of a window that is
\* closed already or that Cleanup has dropped from the manager
WmClose(id) ==
    /\ id \in 1..Len(windows)
    /\ windows' = [windows EXCEPT ![id] = Close(@)]
    /\ UNCHANGED <<now, globalMetrics, aMu, wmWindows, pc, cur, win, processed,
                   onWindowClosed, ctxDone, flushPc, closedWindows, cbIdx, hist>>
    /\ UNCHANGED <<pipeVars, libVars>>

WmNext ==
    \/ \E t \in WmTimes : WmGetOrCreateWindow(t)
    \/ \E t \in WmCloseTimes : WmCloseExpiredWindows(t)
    \/ \E keepDuration \in KeepDurations : WmCleanup(keepDuration)
    \/ \E id \in 1..MaxWmCalls : WmClose(id)
    \/ ClockTick

WmSpecInit == AggInit /\ ~onWindowClosed /\ PipeInit /\ LibInit
WmSpec == WmSpecInit /\ [][WmNext]_vars

\* ------------------------------------------------- POST /api/v1/events/batch
\* the batch requests clients make
BatchRequests == {1, 2}

\* handleBatchEvents: len(events) > 1000
MaxBatchSize == 1000

\* A batch body is the JSON array it carries: the elements `items`, followed
\* by `more` further copies of FillerEvent (the arrays of a thousand elements
\* are written this way).
FillerEvent == ServerEvent("f", "pageview", 1, "u1", "", NoProperties)

Batch(items, more) == [items |-> items, more |-> more]

BatchLen(body) == Len(body.items) + body.more

BatchBodies ==
    LET pv == ServerEvent("", "pageview", ZeroTime, "u1", "s1", "page" :> Str("/home"))
        click == ServerEvent("e1", "click", 1, "u2", "", "element" :> Str("buy"))
        untyped == ServerEvent("e2", "", 1, "u1", "", NoProperties)
    IN  { Batch(<<pv, click>>, 0),
          Batch(<<pv, untyped, click>>, 0),
          Batch(<<>>, 0),
          Batch(<<click>>, MaxBatchSize - 1),
          Batch(<<pv>>, MaxBatchSize) }

BatchInit ==
    /\ gocLog = <<>>
    /\ batches = <<>>
    /\ bindDives \in BOOLEAN
    /\ MetricInit

\* a client posts a batch; gin starts the handler
PostBatch(body) ==
    /\ Running
    /\ httpAccepting
    /\ Len(batches) < Cardinality(BatchRequests)
    /\ batches' = Append(batches,
                     [body |-> body, state |-> "inflight", i |-> 0,
                      accepted |-> 0, rejected |-> 0, enqueued |-> 0,
                      status |-> 0, total |-> 0])
    /\ UNCHANGED <<gocLog, bindDives, metricVars>>
    /\ UNCHANGED <<aggVars, pipeVars>>

\* c.ShouldBindJSON(&events) fails: Event.Type is tagged binding:"required",
\* and gin's validator, where it validates the elements of a slice, reports
\* every element with an empty Type
BatchBindFails(body) ==
    bindDives /\ \E k \in 1..Len(body.items) : BindFails(body.items[k])

BatchTooLargeOffByOne(n) == n > MaxBatchSize + 1

BatchTooLarge(n) == n > MaxBatchSize

\* handleBatchEvents up to the loop: bind, the two size checks, the counters
HandleBatchBind(r) ==
    /\ Running
    /\ r \in 1..Len(batches)
    /\ batches[r].state = "inflight"
    /\ IF \/ BatchBindFails(batches[r].body)
          \/ BatchLen(batches[r].body) = 0
          \/ BatchTooLarge(BatchLen(batches[r].body))
       THEN batches' = [batches EXCEPT ![r].state = "done", ![r].status = 400]
       ELSE batches' = [batches EXCEPT ![r].state = "loop", ![r].i = 1]
    /\ UNCHANGED <<gocLog, bindDives, metricVars>>
    /\ UNCHANGED <<aggVars, pipeVars>>

\* the loop body's defaults: the handler's now for a missing timestamp, a
\* generated id for a missing id
WithBatchDefaults(item, i) ==
    [item EXCEPT
        !.Timestamp = IF item.Timestamp = ZeroTime THEN now ELSE @,
        !.ID = IF item.ID = "" THEN "evt_" \o ToString(now) \o "_" \o ToString(i - 1)
               ELSE @]

HandleBatchItemBreaking(r) ==
    /\ Running
    /\ r \in 1..Len(batches)
    /\ batches[r].state = "loop"
    /\ batches[r].i <= Len(batches[r].body.items)
    /\ LET i == batches[r].i
           n == Len(batches[r].body.items)
           event == WithBatchDefaults(batches[r].body.items[i], i)
           send == TrySend(eventQueue, [req |-> <<r, i>>, event |-> event])
       IN  IF event.Type = ""
           THEN /\ batches' = [batches EXCEPT ![r].rejected = @ + 1, ![r].i = i + 1]
                /\ UNCHANGED <<eventQueue, accepted>>
           ELSE /\ eventQueue' = send.queue
                /\ IF send.sent
                   THEN /\ batches' = [batches EXCEPT ![r].accepted = @ + 1,
                                                      ![r].enqueued = @ + 1,
                                                      ![r].i = i + 1]
                        /\ accepted' = Append(accepted, <<r, i>>)
                   ELSE /\ batches' = [batches EXCEPT ![r].rejected = @ + (n - i + 1),
                                                      ![r].i = n + 1]
                        /\ UNCHANGED accepted
    /\ UNCHANGED <<reqs, httpAccepting, mainPc, workerCtxDone, wpc, workerCount,
                   dequeued, cancelMark>>
    /\ UNCHANGED <<gocLog, bindDives, metricVars>>
    /\ UNCHANGED aggVars

\* one iteration of the loop, for the element at position batches[r].i
HandleBatchItem(r) ==
    /\ Running
    /\ r \in 1..Len(batches)
    /\ batches[r].state = "loop"
    /\ batches[r].i <= Len(batches[r].body.items)
    /\ LET i == batches[r].i
           event == WithBatchDefaults(batches[r].body.items[i], i)
           send == TrySend(eventQueue, [req |-> <<r, i>>, event |-> event])
       IN  IF event.Type = ""
           THEN /\ batches' = [batches EXCEPT ![r].rejected = @ + 1, ![r].i = i + 1]
                /\ UNCHANGED <<eventQueue, accepted>>
           ELSE /\ eventQueue' = send.queue
                /\ IF send.sent
                   THEN /\ batches' = [batches EXCEPT ![r].accepted = @ + 1,
                                                      ![r].enqueued = @ + 1,
                                                      ![r].i = i + 1]
                        /\ accepted' = Append(accepted, <<r, i>>)
                   ELSE /\ batches' = [batches EXCEPT ![r].rejected = @ + 1,
                                                      ![r].i = i + 1]
                        /\ UNCHANGED accepted
    /\ UNCHANGED <<reqs, httpAccepting, mainPc, workerCtxDone, wpc, workerCount,
                   dequeued, cancelMark>>
    /\ UNCHANGED <<gocLog, bindDives, metricVars>>
    /\ UNCHANGED aggVars

\* n further try-sends of e with no receive in between: the queue gains
\* min(n, free slots) copies
RECURSIVE TrySendMany(_, _, _)
TrySendMany(q, e, n) ==
    IF n = 0 \/ ~TrySend(q, e).sent THEN q
    ELSE TrySendMany(TrySend(q, e).queue, e, n - 1)

\* the iterations for the `more` copies of FillerEvent, taken with no worker
\* step in between, and the response: 202 with total, accepted, rejected
HandleBatchRespond(r) ==
    /\ Running
    /\ r \in 1..Len(batches)
    /\ batches[r].state = "loop"
    /\ batches[r].i > Len(batches[r].body.items)
    /\ LET more == batches[r].body.more
           queue == TrySendMany(eventQueue, [req |-> <<r, 0>>, event |-> FillerEvent], more)
           sent == Len(queue) - Len(eventQueue)
       IN  /\ eventQueue' = queue
           /\ accepted' = accepted \o [k \in 1..sent |-> <<r, 0>>]
           /\ batches' = [batches EXCEPT
                             ![r].accepted = @ + sent,
                             ![r].enqueued = @ + sent,
                             ![r].rejected = @ + (more - sent),
                             ![r].i = BatchLen(batches[r].body) + 1,
                             ![r].total = BatchLen(batches[r].body),
                             ![r].state = "done",
                             ![r].status = 202]
    /\ UNCHANGED <<reqs, httpAccepting, mainPc, workerCtxDone, wpc, workerCount,
                   dequeued, cancelMark>>
    /\ UNCHANGED <<gocLog, bindDives, metricVars>>
    /\ UNCHANGED aggVars

BatchNext ==
    \/ \E body \in BatchBodies : PostBatch(body)
    \/ \E r \in BatchRequests : HandleBatchBind(r)
    \/ \E r \in BatchRequests : HandleBatchItem(r)
    \/ \E r \in BatchRequests : HandleBatchRespond(r)
    \/ \E w \in Workers : WorkerReceive(w)

\* batch ingestion with the worker pool running
BatchSpecInit == AggInit /\ ~onWindowClosed /\ PipeInit /\ BatchInit
BatchSpec == BatchSpecInit /\ [][BatchNext]_vars

\* ------------------------------ Metric and MetricsSnapshot used as a library
\* Goroutines get a *Metric from the snapshot and call its methods, or read
\* its exported fields.  Each Metric is mutated with the methods of its kind,
\* as every caller in the repository does.  MetricsSnapshot.Reset, which
\* nothing in the repository calls, is not part of this specification.
MaxOps == 2

MetricNames == {"hits", "users"}

MetricTypes == {MetricTypeCounter, MetricTypeGauge, MetricTypeHistogram, MetricTypeSet}

Call(op, num, str) == [op |-> op, num |-> num, str |-> str]

\* the mutator calls made on a Metric of a kind
MutatorCalls(metricType) ==
    CASE metricType = MetricTypeCounter ->
             {Call("Increment", 0, ""), Call("IncrementBy", 2, ""),
              Call("IncrementBy", -1, "")}
      [] metricType = MetricTypeGauge -> {Call("Set", 7, "")}
      [] metricType = MetricTypeHistogram -> {Call("Observe", 3, "")}
      [] metricType = MetricTypeSet ->
             {Call("AddUnique", 0, "u1"), Call("AddUnique", 0, "u2")}

\* the Metric after the whole mutator ran on m
Apply(call, m) ==
    CASE call.op = "Increment" -> Increment(m)
      [] call.op = "IncrementBy" -> IncrementBy(m, call.num)
      [] call.op = "Set" -> Set(m, call.num)
      [] call.op = "Observe" -> Observe(m, call.num)
      [] call.op = "AddUnique" -> AddUnique(m, call.str)

\* the Metric after the mutator's first assignment to a field of m
FirstWrite(call, m) ==
    CASE call.op = "Increment" -> [m EXCEPT !.Count = @ + 1]
      [] call.op = "IncrementBy" -> [m EXCEPT !.Value = @ + call.num]
      [] call.op = "Set" -> [m EXCEPT !.Value = call.num]
      [] call.op = "Observe" -> [m EXCEPT !.Values = Append(@, call.num)]
      [] call.op = "AddUnique" -> [m EXCEPT !.UniqueSet = @ \cup {call.str}]

MsFindByNameAndType(name, metricType) ==
    IF name \in DOMAIN msMetrics /\ metricObjs[msMetrics[name]].Type = metricType
    THEN msMetrics[name] ELSE 0

\* metric, exists := ms.Metrics[name]: the identity found, 0 when there is none
MsFind(name, metricType) ==
    IF name \in DOMAIN msMetrics THEN msMetrics[name] ELSE 0

\* ms.GetMetric(name, metricType), under ms.mu
MsGetMetric(g, name, metricType) ==
    /\ gpc[g] = "idle"
    /\ LET found == MsFind(name, metricType)
           returned == IF found /= 0 THEN found ELSE Len(metricObjs) + 1
       IN  /\ IF found /= 0
              THEN UNCHANGED <<metricObjs, metricMu, msMetrics, opLog>>
              ELSE /\ metricObjs' = Append(metricObjs, NewMetric(name, metricType))
                   /\ metricMu' = Append(metricMu, "free")
                   /\ opLog' = Append(opLog, <<>>)
                   /\ msMetrics' = (name :> returned) @@ msMetrics
           /\ gptr' = [gptr EXCEPT ![g] = returned]
           /\ getHist' = [name |-> [getHist.name EXCEPT ![g] = name],
                          kind |-> IF found /= 0 THEN getHist.kind
                                   ELSE Append(getHist.kind, metricType)]
    /\ gpc' = [gpc EXCEPT ![g] = "holding"]
    /\ UNCHANGED <<gop, obs>>
    /\ UNCHANGED <<aggVars, pipeVars, gocLog, batchVars>>

RECURSIVE TotalLen(_)
\* the number of mutator calls completed on all Metrics
TotalLen(logs) == IF logs = <<>> THEN 0 ELSE Len(Head(logs)) + TotalLen(Tail(logs))

\* the mutator calls begun and not yet completed
InFlight == Cardinality({g \in Goroutines : gpc[g] = "locked"})

\* m.mu.Lock() succeeds
MetricLockFree(id) == metricMu[id] = "free"

\* a mutator of the held Metric: m.mu.Lock() and the first assignment
MutatorBegin(g, call) ==
    /\ gpc[g] = "holding"
    /\ TotalLen(opLog) + InFlight < MaxOps
    /\ call \in MutatorCalls(metricObjs[gptr[g]].Type)
    /\ MetricLockFree(gptr[g])
    /\ metricMu' = [metricMu EXCEPT ![gptr[g]] = g]
    /\ gop' = [gop EXCEPT ![g] = [op |-> call.op, num |-> call.num, str |-> call.str,
                                  base |-> metricObjs[gptr[g]]]]
    /\ metricObjs' = [metricObjs EXCEPT ![gptr[g]] = FirstWrite(call, @)]
    /\ gpc' = [gpc EXCEPT ![g] = "locked"]
    /\ UNCHANGED <<msMetrics, gptr, obs, opLog>>
    /\ UNCHANGED <<getHist, aggVars, pipeVars, gocLog, batchVars>>

\* the mutator's remaining assignments and the deferred m.mu.Unlock()
MutatorEnd(g) ==
    /\ gpc[g] = "locked"
    /\ metricObjs' = [metricObjs EXCEPT ![gptr[g]] = Apply(gop[g], gop[g].base)]
    /\ metricMu' = [metricMu EXCEPT ![gptr[g]] = "free"]
    /\ opLog' = [opLog EXCEPT ![gptr[g]] =
                    Append(@, Call(gop[g].op, gop[g].num, gop[g].str))]
    /\ gop' = [gop EXCEPT ![g] = NoCall]
    /\ gpc' = [gpc EXCEPT ![g] = "holding"]
    /\ UNCHANGED <<msMetrics, gptr, obs>>
    /\ UNCHANGED <<getHist, aggVars, pipeVars, gocLog, batchVars>>

\* the holder of a *Metric reads its exported fields (metric.Count,
\* metric.Value, the JSON encoding of the map GetAllMetrics returned): no lock
HolderRead(g) ==
    /\ gpc[g] = "holding"
    /\ obs' = [NoObs EXCEPT !.kind = "fields", !.g = g, !.metric = gptr[g],
                            !.seen = metricObjs[gptr[g]]]
    /\ UNCHANGED <<metricObjs, metricMu, msMetrics, gpc, gptr, gop, opLog>>
    /\ UNCHANGED <<getHist, aggVars, pipeVars, gocLog, batchVars>>

\* m.Average(), under m.mu.RLock()
AverageRead(g) ==
    /\ gpc[g] = "holding"
    /\ metricMu[gptr[g]] = "free"
    /\ obs' = [NoObs EXCEPT !.kind = "average", !.g = g, !.metric = gptr[g],
                            !.avg = Average(metricObjs[gptr[g]])]
    /\ UNCHANGED <<metricObjs, metricMu, msMetrics, gpc, gptr, gop, opLog>>
    /\ UNCHANGED <<getHist, aggVars, pipeVars, gocLog, batchVars>>

\* the map ms.Metrics with the Metrics it points to
MsView == [n \in DOMAIN msMetrics |-> metricObjs[msMetrics[n]]]

\* ms.GetMetricValue(name): under ms.mu.RLock(), without the Metric's m.mu
ValueRead(g, name) ==
    /\ gpc[g] = "idle"
    /\ name \in DOMAIN msMetrics
    /\ obs' = [NoObs EXCEPT !.kind = "value", !.g = g, !.metric = msMetrics[name],
                            !.value = GetMetricValue(MsView, name)]
    /\ UNCHANGED <<metricObjs, metricMu, msMetrics, gpc, gptr, gop, opLog>>
    /\ UNCHANGED <<getHist, aggVars, pipeVars, gocLog, batchVars>>

\* the goroutine drops its *Metric
Release(g) ==
    /\ gpc[g] = "holding"
    /\ gptr' = [gptr EXCEPT ![g] = 0]
    /\ gpc' = [gpc EXCEPT ![g] = "idle"]
    /\ getHist' = [getHist EXCEPT !.name[g] = ""]
    /\ UNCHANGED <<metricObjs, metricMu, msMetrics, gop, obs, opLog>>
    /\ UNCHANGED <<aggVars, pipeVars, gocLog, batchVars>>

MetricNext ==
    \/ \E g \in Goroutines, name \in MetricNames, metricType \in MetricTypes :
           MsGetMetric(g, name, metricType)
    \/ \E g \in Goroutines :
           \E call \in UNION { MutatorCalls(metricType) : metricType \in MetricTypes } :
               MutatorBegin(g, call)
    \/ \E g \in Goroutines : MutatorEnd(g)
    \/ \E g \in Readers : HolderRead(g)
    \/ \E g \in Readers : AverageRead(g)
    \/ \E g \in Readers, name \in MetricNames : ValueRead(g, name)
    \/ \E g \in Goroutines : Release(g)

MetricSpecInit == AggInit /\ ~onWindowClosed /\ PipeInit /\ LibInit
MetricSpec == MetricSpecInit /\ [][MetricNext]_vars

\* ------------------------------------------- the aggregator fed with purchases
\* ProcessEvent called with purchase events only.  Amounts are whole numbers
\* of cents.
PurchaseInputs ==
    { Event("purchase", 0, "u1", "", "amount" :> Num(5)),
      Event("purchase", 0, "u2", "", "amount" :> Num(-3)),
      Event("purchase", 1, "u1", "", "amount" :> Str("5")),
      Event("purchase", 1, "u2", "", NoProperties) }

PurchaseNext ==
    \/ \E c \in Callers, e \in PurchaseInputs : ProcessEvent(c, e)
    \/ \E c \in Callers : UpdateGlobalMetrics(c)
    \/ \E c \in Callers : GetOrCreateWindow(c)
    \/ \E c \in Callers : UpdateWindowMetrics(c)

PurchaseSpecInit == AggInit /\ ~onWindowClosed /\ PipeInit /\ LibInit
PurchaseSpec == PurchaseSpecInit /\ [][PurchaseNext]_vars

\* ------------------------- the aggregator fed with properties of any JSON type
\* ProcessEvent called with events whose page, element or amount is absent or
\* of another JSON type, next to events that carry them as expected
MistypedInputs ==
    { Event("pageview", 0, "u1", "s1", "page" :> Str("/home")),
      Event("pageview", 0, "u2", "", "page" :> Num(7)),
      Event("pageview", 1, "", "s1", NoProperties),
      Event("click", 0, "u1", "", "element" :> Str("buy")),
      Event("click", 1, "u2", "", "element" :> Num(1)),
      Event("click", 1, "u1", "", NoProperties),
      Event("purchase", 0, "u1", "", "amount" :> Num(5)),
      Event("purchase", 1, "u1", "", "amount" :> Str("5")),
      Event("purchase", 1, "u2", "", NoProperties) }

MistypedNext ==
    \/ \E c \in Callers, e \in MistypedInputs : ProcessEvent(c, e)
    \/ \E c \in Callers : UpdateGlobalMetrics(c)
    \/ \E c \in Callers : GetOrCreateWindow(c)
    \/ \E c \in Callers : UpdateWindowMetrics(c)

MistypedSpecInit == AggInit /\ ~onWindowClosed /\ PipeInit /\ LibInit
MistypedSpec == MistypedSpecInit /\ [][MistypedNext]_vars

\* ------------------------------- the aggregator fed with events of other types
\* ProcessEvent called with events whose type is none of pageview, click,
\* purchase (with and without user and session, and carrying the properties
\* the three known types read), next to events of the known types
OtherTypeInputs ==
    { Event("signup", 0, "u1", "s1", NoProperties),
      Event("scroll", 1, "", "", "page" :> Str("/home")),
      Event("", 0, "u2", "", "element" :> Str("buy") @@ "amount" :> Num(5)),
      Event("pageview", 0, "u1", "s1", "page" :> Str("/home")),
      Event("click", 1, "u1", "", "element" :> Str("buy")),
      Event("purchase", 1, "", "s1", "amount" :> Num(5)) }

OtherTypeNext ==
    \/ \E c \in Callers, e \in OtherTypeInputs : ProcessEvent(c, e)
    \/ \E c \in Callers : UpdateGlobalMetrics(c)
    \/ \E c \in Callers : GetOrCreateWindow(c)
    \/ \E c \in Callers : UpdateWindowMetrics(c)

OtherTypeSpecInit == AggInit /\ ~onWindowClosed /\ PipeInit /\ LibInit
OtherTypeSpec == OtherTypeSpecInit /\ [][OtherTypeNext]_vars

\* ------------------------------ the aggregator and the clock, no callback set
\* ProcessEvent called at any wall-clock time, before and after the ticks of
\* the flush loop, with no window-closed callback registered
TimedNext ==
    \/ \E c \in Callers, e \in EventInputs : ProcessEvent(c, e)
    \/ \E c \in Callers : UpdateGlobalMetrics(c)
    \/ \E c \in Callers : GetOrCreateWindow(c)
    \/ \E c \in Callers : UpdateWindowMetrics(c)
    \/ FlushExpiredWindows
    \/ Cleanup
    \/ ClockTick

TimedSpecInit == AggInit /\ ~onWindowClosed /\ PipeInit /\ LibInit
TimedSpec == TimedSpecInit /\ [][TimedNext]_vars

\* ------------------------------------------------- the pipeline, with fairness
\* select picks at random among its ready cases, so a worker whose ctx.Done()
\* is ready takes that case sooner or later; main is sequential code whose
\* two waits are bounded by shutdownCtx and by time.After.
PipeFairness ==
    /\ \A w \in Workers : WF_vars(WorkerStop(w))
    /\ WF_vars(\E timedOut \in BOOLEAN : HttpShutdownReturns(timedOut))
    /\ WF_vars(CancelWorkers)
    /\ WF_vars(\E timedOut \in BOOLEAN : WaitReturns(timedOut))

\* the body clients post while the shutdown sequence is studied
ShutdownBodies ==
    { ServerEvent("e1", "click", 1, "u2", "", "element" :> Str("buy")) }

PipeLiveNext ==
    \/ \E body \in ShutdownBodies : PostEvent(body)
    \/ \E r \in 1..MaxRequests : HandleEvent(r)
    \/ \E w \in Workers : WorkerReceive(w)
    \/ \E w \in Workers : WorkerStats(w)
    \/ \E w \in Workers : WorkerStop(w)
    \/ ShutdownSignal
    \/ \E timedOut \in BOOLEAN : HttpShutdownReturns(timedOut)
    \/ CancelWorkers
    \/ \E timedOut \in BOOLEAN : WaitReturns(timedOut)

PipeLiveSpec == PipeSpecInit /\ [][PipeLiveNext]_vars /\ PipeFairness

\* ------------------------------------------------ the flush loop, with fairness
\* the ticker of Start fires every flushInterval, so the loop, when it is at
\* its select, runs flushExpiredWindows sooner or later unless it takes
\* ctx.Done() first; the callback returns or panics; cleanup returns.
FlushFairness ==
    /\ WF_vars(FlushExpiredWindows)
    /\ WF_vars(\E outcome \in CallbackOutcomes : WindowClosedCallback(outcome))
    /\ WF_vars(Cleanup)

\* the events submitted while the flush loop is studied: one per bucket
FlushInputs ==
    { Event("pageview", 0, "u1", "", NoProperties),
      Event("click", 3, "u1", "", NoProperties) }

FlushLiveNext ==
    \/ \E c \in Callers, e \in FlushInputs : ProcessEvent(c, e)
    \/ \E c \in Callers : UpdateGlobalMetrics(c)
    \/ \E c \in Callers : GetOrCreateWindow(c)
    \/ \E c \in Callers : UpdateWindowMetrics(c)
    \/ FlushExpiredWindows
    \/ \E outcome \in CallbackOutcomes : WindowClosedCallback(outcome)
    \/ Cleanup
    \/ CancelContext
    \/ FlushStop
    \/ ClockTick

FlushLiveSpec == Init /\ [][FlushLiveNext]_vars /\ FlushFairness

\* ---------------------------------------------------------------- properties
AllIdle == \A c \in Callers : pc[c] = "idle"

\* how many of the ProcessEvent calls made so far were for an event satisfying P
ProcessedWhere(P(_)) ==
    LET RECURSIVE Sum(_)
        Sum(S) == IF S = {} THEN 0
                  ELSE LET e == CHOOSE x \in S : TRUE
                       IN  processed[e] + Sum(S \ {e})
    IN  Sum({ e \in DOMAIN processed : P(e) })

TypesUsed == { e.Type : e \in EventInputs }

\* C1: once all concurrently running ProcessEvent calls have completed, the
\* global counts total_events, events_by_type:<type>, pageviews, clicks,
\* purchases, unique_users and unique_sessions are the counts of the events
\* processed, whatever the interleaving was (the counts of any serialization).
C1_ConcurrentCountsAreSerialCounts ==
    AllIdle =>
        /\ CountOf(globalMetrics, "total_events") = ProcessedWhere(LAMBDA e : TRUE)
        /\ \A t \in TypesUsed :
              CountOf(globalMetrics, "events_by_type:" \o t)
                  = ProcessedWhere(LAMBDA e : e.Type = t)
        /\ CountOf(globalMetrics, "pageviews")
               = ProcessedWhere(LAMBDA e : e.Type = "pageview")
        /\ CountOf(globalMetrics, "clicks")
               = ProcessedWhere(LAMBDA e : e.Type = "click")
        /\ CountOf(globalMetrics, "purchases")
               = ProcessedWhere(LAMBDA e : e.Type = "purchase")
        /\ CountOf(globalMetrics, "unique_users")
               = Cardinality({ e.UserID : e \in DOMAIN processed } \ {""})
        /\ CountOf(globalMetrics, "unique_sessions")
               = Cardinality({ e.SessionID : e \in DOMAIN processed } \ {""})

\* two calls have completed, for two pageviews of two users, one of them
\* having entered ProcessEvent before the other had returned
C1_Witness ==
    /\ AllIdle
    /\ CountOf(globalMetrics, "total_events") = 2
    /\ CountOf(globalMetrics, "pageviews") = 2
    /\ CountOf(globalMetrics, "unique_users") = 2
    /\ Len(windows) = 1
    /\ CountOf(windows[1].Metrics, "events") = 2

\* C5 (as claimed): when the flush loop has observed cancellation and exited,
\* every window that a sweep at that instant would have closed is closed and,
\* with a callback registered, delivered.
C5_FinalSweepOnCancellation ==
    flushPc = "stopped" =>
        \A id \in 1..Len(windows) :
            hist[id].expiredAtStop =>
                /\ windows[id].Closed
                /\ onWindowClosed => hist[id].delivered >= 1

\* C6 (as claimed): a panic of the window-closed callback does not terminate
\* the flush loop.
C6_CallbackPanicIsolated ==
    \A id \in 1..Len(windows) :
        hist[id].panicked > 0 => flushPc /= "panicked"

\* the windows of the current tick whose callback is still to be invoked
AwaitingCallback(id) ==
    /\ flushPc = "callback"
    /\ \E i \in cbIdx..Len(closedWindows) : closedWindows[i] = id

\* C7 (as claimed): a window is returned by at most one CloseExpiredWindows
\* call, is in no GetActiveWindows result from then on, and the flush loop
\* invokes the registered callback exactly once for it.
C7_ClosedOnceDeliveredOnce ==
    \A id \in 1..Len(windows) :
        /\ hist[id].returned <= 1
        /\ hist[id].returned = 1 => ~InSeq(id, GetActiveWindows)
        /\ hist[id].delivered <= 1
        /\ (onWindowClosed /\ hist[id].returned = 1 /\ ~AwaitingCallback(id))
               => hist[id].delivered = 1

\* C8: the WindowManager never holds two open windows with the same start.
C8_OneOpenWindowPerStart ==
    \A i, j \in 1..Len(wmWindows) :
        (i < j /\ windows[wmWindows[i]].StartTime = windows[wmWindows[j]].StartTime)
            => (windows[wmWindows[i]].Closed \/ windows[wmWindows[j]].Closed)

\* two callers hold the same window at once: both got it from
\* GetOrCreateWindow for timestamps of one bucket
C8_Witness ==
    /\ pc["c1"] = "update_window"
    /\ pc["c2"] = "update_window"
    /\ win["c1"] = win["c2"]
    /\ cur["c1"].Timestamp /= cur["c2"].Timestamp

\* C9 (as claimed): the WindowManager never holds two windows, open or
\* closed, with the same start.
C9_OneWindowPerStart ==
    \A i, j \in 1..Len(wmWindows) :
        i < j => windows[wmWindows[i]].StartTime /= windows[wmWindows[j]].StartTime

\* C9 (amended): of the windows the WindowManager holds with the same start,
\* every one but the last in the list is closed; a window with the start of a
\* closed window that is still held can be added.
C9_EarlierWindowsOfAStartAreClosed ==
    \A i, j \in 1..Len(wmWindows) :
        (i < j /\ windows[wmWindows[i]].StartTime = windows[wmWindows[j]].StartTime)
            => windows[wmWindows[i]].Closed

\* a closed window and an open window with the same start, both held
C9_Witness ==
    \E i, j \in 1..Len(wmWindows) :
        /\ i < j
        /\ windows[wmWindows[i]].StartTime = windows[wmWindows[j]].StartTime
        /\ windows[wmWindows[i]].Closed
        /\ ~windows[wmWindows[j]].Closed

C2_EnqueueNeverBlocks ==
    /\ [](\A r \in 1..Len(reqs) :
            (Running /\ reqs[r].kind = "single" /\ reqs[r].state = "inflight")
                => ENABLED HandleEvent(r))
    /\ [][\A r \in 1..Len(reqs) :
            (/\ reqs[r].kind = "single"
             /\ reqs[r].state = "inflight"
             /\ ~BindFails(reqs[r].body)
             /\ reqs'[r].state = "done")
            => IF Len(eventQueue) = BufferSize
               THEN /\ reqs'[r].status = 503
                    /\ eventQueue' = eventQueue
                    /\ UNCHANGED <<aggVars, libVars>>
               ELSE /\ reqs'[r].status = 202
                    /\ Len(eventQueue') = Len(eventQueue) + 1
                    /\ SubSeq(eventQueue', 1, Len(eventQueue)) = eventQueue
                    /\ eventQueue'[Len(eventQueue')].req = r
                    /\ eventQueue'[Len(eventQueue')].event.Type = reqs[r].body.Type]_vars

\* a request was answered 503 on a full queue before any worker received
\* anything
C2_Witness ==
    /\ Len(eventQueue) = BufferSize
    /\ dequeued = <<>>
    /\ \E r \in 1..Len(reqs) : reqs[r].status = 503

\* C3 (as claimed): every event a worker dequeues is passed to
\* Aggregator.ProcessEvent, so with the queue empty, all workers idle and no
\* shutdown, total_events.count is the number of events accepted.
C3_DequeuedEventsAreAggregated ==
    (/\ eventQueue = <<>>
     /\ \A w \in Workers : wpc[w] = "select"
     /\ mainPc = "serving")
    => CountOf(globalMetrics, "total_events") = Len(accepted)

C11_ClosedStaysClosed ==
    [][\A id \in 1..Len(windows) :
          windows[id].Closed =>
              /\ id <= Len(windows')
              /\ windows'[id].Closed
              /\ Close(windows[id]) = windows[id]]_vars

\* a GetOrCreateWindow call for the bucket of a window that was closed
\* already returned another window, and the closed window is still closed
C11_Witness ==
    \E k \in 1..Len(gocLog) :
        \E id \in gocLog[k].closedThen :
            /\ windows[id].StartTime = Truncate(gocLog[k].t, WindowDuration)
            /\ gocLog[k].window /= id
            /\ windows[id].Closed

\* C12: every window has a start that is a multiple of the manager's duration
\* and an end one duration later, and the window GetOrCreateWindow(t) returns
\* is the one of the bucket of t, for t before, at or after the current time.
C12_WindowsAreAligned ==
    /\ \A id \in 1..Len(windows) :
          /\ windows[id].StartTime % WindowDuration = 0
          /\ windows[id].EndTime - windows[id].StartTime = WindowDuration
          /\ windows[id].Duration = WindowDuration
    /\ \A k \in 1..Len(gocLog) :
          LET w == windows[gocLog[k].window]
          IN  /\ w.StartTime <= gocLog[k].t
              /\ gocLog[k].t < w.EndTime

\* windows were created for an instant that is no multiple of the duration
\* and lies after the current time, and for one that lies before it
C12_Witness ==
    /\ \E k \in 1..Len(gocLog) :
          gocLog[k].t % WindowDuration /= 0 /\ gocLog[k].t > now
    /\ \E k \in 1..Len(gocLog) : gocLog[k].t < now

\* C13: of two GetOrCreateWindow calls, the later returns the window the
\* earlier returned when both instants are in one bucket and that window was
\* not closed by the time of the later call, and another window when the
\* instants are in different buckets.
C13_SameBucketSameWindow ==
    \A i, j \in 1..Len(gocLog) :
        i < j =>
            IF Truncate(gocLog[i].t, WindowDuration) = Truncate(gocLog[j].t, WindowDuration)
            THEN gocLog[i].window = gocLog[j].window
                    \/ gocLog[i].window \in gocLog[j].closedThen
            ELSE gocLog[i].window /= gocLog[j].window

\* two calls with different instants of one bucket returned the same window
\* and a third call, for another bucket, returned another
C13_Witness ==
    \E i, j, k \in 1..Len(gocLog) :
        /\ i < j
        /\ gocLog[i].t /= gocLog[j].t
        /\ gocLog[i].window = gocLog[j].window
        /\ gocLog[k].window /= gocLog[i].window
        /\ ~windows[gocLog[k].window].Closed


\* the number of elements of a batch body that carry no type
Untyped(body) == Cardinality({ k \in 1..Len(body.items) : body.items[k].Type = "" })

\* C14 (as claimed): a batch of 1 to 1000 items is answered 202 with
\* accepted + rejected = total, accepted the number of items the request put
\* into the queue, and every item with an empty type rejected and not enqueued.
C14_BatchCountsAddUp ==
    \A r \in 1..Len(batches) :
        (/\ batches[r].state = "done"
         /\ BatchLen(batches[r].body) >= 1
         /\ BatchLen(batches[r].body) <= 1000)
        => /\ batches[r].status = 202
           /\ batches[r].total = BatchLen(batches[r].body)
           /\ batches[r].accepted + batches[r].rejected = batches[r].total
           /\ batches[r].accepted = batches[r].enqueued
           /\ batches[r].rejected >= Untyped(batches[r].body)
           /\ \A k \in 1..Len(accepted) :
                 (accepted[k][1] = r /\ accepted[k][2] > 0)
                     => batches[r].body.items[accepted[k][2]].Type /= ""

\* C15: the handler of a batch of 0 or of more than 1000 items answers 400 in
\* one step that changes neither the queue nor any aggregator state, and such
\* a batch never has an item enqueued.
C15_BadBatchSizeRejected ==
    [][\A r \in 1..Len(batches) :
          (BatchLen(batches[r].body) = 0 \/ BatchLen(batches[r].body) > 1000)
          => /\ batches'[r].state \in {"inflight", "done"}
             /\ batches'[r].enqueued = 0
             /\ (batches[r].state = "inflight" /\ batches'[r].state = "done")
                   => /\ batches'[r].status = 400
                      /\ eventQueue' = eventQueue
                      /\ accepted' = accepted
                      /\ UNCHANGED aggVars]_vars

\* an empty batch and a batch of 1001 items were both answered 400
C15_Witness ==
    \E r1, r2 \in 1..Len(batches) :
        /\ BatchLen(batches[r1].body) = 0
        /\ batches[r1].status = 400
        /\ BatchLen(batches[r2].body) = 1001
        /\ batches[r2].status = 400

\* C16: GetMetric returns, for a name, the Metric created by the first request
\* for that name, whatever kind is requested and whichever goroutine asks: one
\* Metric is ever allocated per name and the name is bound to it, a goroutine
\* holds the Metric bound to the name it asked for, and the kind of a Metric is
\* the kind of the request that created it.
C16_OneMetricPerName ==
    /\ Len(metricObjs) = Cardinality(DOMAIN msMetrics)
    /\ \A n \in DOMAIN msMetrics : metricObjs[msMetrics[n]].Name = n
    /\ Len(getHist.kind) = Len(metricObjs)
    /\ \A id \in 1..Len(metricObjs) : metricObjs[id].Type = getHist.kind[id]
    /\ \A g \in Goroutines :
          gptr[g] /= 0 =>
              /\ getHist.name[g] \in DOMAIN msMetrics
              /\ gptr[g] = msMetrics[getHist.name[g]]

\* two goroutines asked for the same name and hold the same Metric, while
\* another name has its own Metric
C16_Witness ==
    /\ gptr["g1"] /= 0
    /\ gptr["g1"] = gptr["g2"]
    /\ getHist.name["g1"] = getHist.name["g2"]
    /\ Cardinality(DOMAIN msMetrics) = 2

RECURSIVE Replay(_, _)
\* the Metric after the mutator calls of a log, each applied whole and in order
Replay(calls, m) ==
    IF calls = <<>> THEN m ELSE Replay(Tail(calls), Apply(Head(calls), m))

Fresh(id) == NewMetric(metricObjs[id].Name, metricObjs[id].Type)

\* the states a Metric went through or is about to reach when every mutator
\* is one indivisible step: after each prefix of the completed calls, and
\* after a call that holds the lock
WholeStates(id) ==
    { Replay(SubSeq(opLog[id], 1, k), Fresh(id)) : k \in 0..Len(opLog[id]) }
    \cup { Apply(gop[g], gop[g].base) :
              g \in { h \in Goroutines : gpc[h] = "locked" /\ gptr[h] = id } }

\* C17: mutators of a Metric are atomic with respect to each other and to
\* reads: a Metric on which no mutator is running holds the effect of every
\* completed call (n Increments give count n and value n), and what a reader
\* saw is a state in which every mutation is applied whole or not at all.
C17_MutatorsAtomicForReaders ==
    /\ \A id \in 1..Len(metricObjs) :
          metricMu[id] = "free" => metricObjs[id] = Replay(opLog[id], Fresh(id))
    /\ obs.kind = "fields" => obs.seen \in WholeStates(obs.metric)
    /\ obs.kind = "value" =>
          obs.value[1] \in { w.Value : w \in WholeStates(obs.metric) }
    /\ obs.kind = "average" =>
          obs.avg \in { Average(w) : w \in WholeStates(obs.metric) }

\* the part of C17 about mutators among themselves: no update is lost
C17_NoLostUpdate ==
    \A id \in 1..Len(metricObjs) :
        metricMu[id] = "free" => metricObjs[id] = Replay(opLog[id], Fresh(id))

\* a reader saw a Metric between the two assignments of a mutator
C17_TornRead ==
    /\ obs.kind = "fields"
    /\ obs.seen \notin WholeStates(obs.metric)

\* the calls completed or begun on a Metric are all Increment
OnlyIncremented(id) ==
    /\ \A k \in 1..Len(opLog[id]) : opLog[id][k].op = "Increment"
    /\ \A g \in Goroutines :
          gpc[g] = "locked" /\ gptr[g] = id => gop[g].op = "Increment"

StringsAdded(id) == { opLog[id][k].str : k \in 1..Len(opLog[id]) }

\* C19: after every completed mutation of a UniqueSet metric, count is the
\* number of distinct strings added so far, whatever the order of the calls
\* and however many times each string was added.
C19_CountIsDistinctStrings ==
    \A id \in 1..Len(metricObjs) :
        metricObjs[id].Type = MetricTypeSet /\ metricMu[id] = "free" =>
            /\ metricObjs[id].Count = Cardinality(StringsAdded(id))
            /\ metricObjs[id].UniqueSet = StringsAdded(id)

\* the same string was added twice to a UniqueSet metric, whose count is 1
C19_Witness ==
    \E id \in 1..Len(metricObjs) :
        /\ metricObjs[id].Type = MetricTypeSet
        /\ metricMu[id] = "free"
        /\ Len(opLog[id]) = 2
        /\ opLog[id][1] = opLog[id][2]
        /\ metricObjs[id].Count = 1

RECURSIVE ValueAdded(_)
\* what a log of Increment and IncrementBy calls adds to value
ValueAdded(calls) ==
    IF calls = <<>> THEN 0
    ELSE (IF Head(calls).op = "Increment" THEN 1 ELSE Head(calls).num)
         + ValueAdded(Tail(calls))

\* C20: a counter that completed n calls has count n, and its value is n when
\* the calls are all Increment and, in general, the sum of 1 per Increment and
\* v per IncrementBy(v); Average returns value / count when count > 0 and 0
\* when count = 0.
C20_CounterArithmeticAndAverage ==
    [][ /\ \A id \in 1..Len(metricObjs') :
              metricObjs'[id].Type = MetricTypeCounter /\ metricMu'[id] = "free" =>
                  /\ metricObjs'[id].Count = Len(opLog'[id])
                  /\ metricObjs'[id].Value = ValueAdded(opLog'[id])
        /\ \A g \in Goroutines :
              AverageRead(g) =>
                  LET m == metricObjs[gptr[g]]
                  IN  /\ obs'.avg[2] /= 0
                      /\ m.Count > 0 => obs'.avg[1] * m.Count = m.Value * obs'.avg[2]
                      /\ m.Count = 0 => obs'.avg[1] = 0 ]_vars

\* Average was read on a counter after Increment and IncrementBy(2): 3 / 2
C20_Witness ==
    /\ obs.kind = "average"
    /\ obs.avg = <<3, 2>>
    /\ Len(opLog[obs.metric]) = 2
    /\ \E k \in 1..2 : opLog[obs.metric][k].op = "Increment"

\* no caller is between the two steps of updateGlobalMetrics
GlobalsSettled == \A c \in Callers : pc[c] /= "update_global"

\* C21: whenever no updateGlobalMetrics is running, pageviews, clicks and
\* purchases each count the processed events of their type and equal the
\* events_by_type counter of that type, and unique_users counts the distinct
\* non-empty user ids of the processed events.
C21_TypeCountersMatchEvents ==
    GlobalsSettled =>
        /\ \A t \in {"pageview", "click", "purchase"} :
              /\ CountOf(globalMetrics, t \o "s")
                     = ProcessedWhere(LAMBDA e : e.Type = t)
              /\ CountOf(globalMetrics, t \o "s")
                     = CountOf(globalMetrics, EventTypeKey([Type |-> t]))
        /\ CountOf(globalMetrics, "unique_users")
               = Cardinality({ e.UserID : e \in DOMAIN processed } \ {""})

\* a pageview and a click of the same user were processed
C21_Witness ==
    /\ GlobalsSettled
    /\ CountOf(globalMetrics, "pageviews") = 1
    /\ CountOf(globalMetrics, "clicks") = 1
    /\ CountOf(globalMetrics, "unique_users") = 1
    /\ CountOf(globalMetrics, "total_events") = 2

\* the sum of properties.amount over the ProcessEvent calls made so far whose
\* event carries a number as amount
AmountSum ==
    LET RECURSIVE Sum(_)
        Sum(S) == IF S = {} THEN 0
                  ELSE LET e == CHOOSE x \in S : TRUE
                       IN  processed[e] * e.Properties["amount"].n + Sum(S \ {e})
    IN  Sum({ e \in DOMAIN processed : IsNumber(e, "amount") })

ValueOf(ms, name) == GetMetricValue(ms, name)[1]

ObservationsOf(ms, name) == IF name \in DOMAIN ms THEN ms[name].Values ELSE <<>>

RECURSIVE SeqSum(_)
SeqSum(seq) == IF seq = <<>> THEN 0 ELSE Head(seq) + SeqSum(Tail(seq))

\* C22: whenever no updateGlobalMetrics is running, revenue and
\* revenue_histogram both count the processed purchases whose amount is a
\* number and both hold the sum of those amounts, the histogram holds one
\* observation per such purchase, and purchases counts at least as many.
C22_RevenueMatchesPurchases ==
    GlobalsSettled =>
        LET paid == ProcessedWhere(LAMBDA e : e.Type = "purchase" /\ IsNumber(e, "amount"))
        IN  /\ CountOf(globalMetrics, "revenue") = paid
            /\ CountOf(globalMetrics, "revenue_histogram") = paid
            /\ ValueOf(globalMetrics, "revenue") = AmountSum
            /\ ValueOf(globalMetrics, "revenue_histogram") = AmountSum
            /\ Len(ObservationsOf(globalMetrics, "revenue_histogram")) = paid
            /\ SeqSum(ObservationsOf(globalMetrics, "revenue_histogram")) = AmountSum
            /\ CountOf(globalMetrics, "purchases") >= paid
            /\ CountOf(globalMetrics, "purchases")
                   = ProcessedWhere(LAMBDA e : e.Type = "purchase")

\* two purchases were processed, one of 5 and one whose amount is a string
C22_Witness ==
    /\ GlobalsSettled
    /\ CountOf(globalMetrics, "purchases") = 2
    /\ CountOf(globalMetrics, "revenue") = 1
    /\ ValueOf(globalMetrics, "revenue") = 5
    /\ ObservationsOf(globalMetrics, "revenue_histogram") = <<5>>
    /\ \E e \in DOMAIN processed : IsString(e, "amount")

\* C23: after cancel() a worker in its loop can always take the ctx.Done()
\* case, and every worker leaves its loop unless the process exits first;
\* once the shutdown signal is received main reaches "shutdown complete",
\* with all workers stopped or with the wait timed out.
C23_ShutdownTerminates ==
    /\ [](\A w \in Workers :
            (workerCtxDone /\ Running /\ wpc[w] = "select") => ENABLED WorkerStop(w))
    /\ workerCtxDone ~> (AllWorkersStopped \/ ~Running)
    /\ (mainPc /= "serving") ~> (mainPc = "complete")

\* main completed after every worker had stopped, events still in the queue
C23_Witness ==
    /\ mainPc = "complete"
    /\ AllWorkersStopped
    /\ eventQueue /= <<>>

\* C24: the queue never holds more than BufferSize events, it holds the
\* accepted events not yet received, in the order they were accepted, and the
\* workers received the events in the order they were accepted.
C24_QueueBoundedFifo ==
    /\ Len(eventQueue) <= BufferSize
    /\ Len(dequeued) + Len(eventQueue) = Len(accepted)
    /\ \A k \in 1..Len(dequeued) : dequeued[k][1] = accepted[k]
    /\ \A i \in 1..Len(eventQueue) :
          eventQueue[i].req = accepted[Len(dequeued) + i]

\* the queue is full again after a worker received the oldest event
C24_Witness ==
    /\ Len(eventQueue) = BufferSize
    /\ Len(dequeued) = 1
    /\ Len(accepted) = BufferSize + 1

\* C25: an event is received from the queue at most once, by one worker, and
\* only after it was accepted; an event that a worker received is no longer
\* in the queue for another worker.
C25_EachEventReceivedOnce ==
    /\ \A j, k \in 1..Len(dequeued) :
          dequeued[j][1] = dequeued[k][1] => j = k
    /\ \A k \in 1..Len(dequeued) :
          /\ \E i \in 1..Len(accepted) : accepted[i] = dequeued[k][1]
          /\ \A i \in 1..Len(eventQueue) : eventQueue[i].req /= dequeued[k][1]
    /\ \A i \in 1..Len(accepted) :
          \/ \E k \in 1..Len(dequeued) : dequeued[k][1] = accepted[i]
          \/ \E k \in 1..Len(eventQueue) : eventQueue[k].req = accepted[i]

\* two workers each received one of two accepted events
C25_Witness ==
    /\ Len(dequeued) = 2
    /\ dequeued[1][2] /= dequeued[2][2]
    /\ dequeued[1][1] /= dequeued[2][1]

\* the ProcessEvent calls that have not returned
CallsInFlight == Cardinality({ c \in Callers : pc[c] /= "idle" })

OpenWindows == { i \in 1..Len(wmWindows) : ~windows[wmWindows[i]].Closed }

C27_ClosedWindowMetricsFinal ==
    [][\A id \in 1..Len(windows) :
          windows[id].Closed => windows'[id].Metrics = windows[id].Metrics]_vars

\* a caller holds a window that the flush loop has closed and returned, and
\* has not yet run updateWindowMetrics on it
C27_UpdatePendingOnClosedWindow ==
    \E c \in Callers :
        /\ pc[c] = "update_window"
        /\ windows[win[c]].Closed
        /\ hist[win[c]].returned = 1

\* C28 (as claimed): the cleanup of a flush tick keeps exactly the windows
\* that are open or whose end is less than 5 x window_duration in the past.
C28_CleanupKeepsFiveDurations ==
    [][(flushPc = "cleanup" /\ flushPc' = "select") =>
          \A i \in 1..Len(wmWindows) :
              InSeq(wmWindows[i], wmWindows')
                  <=> \/ ~windows[wmWindows[i]].Closed
                      \/ now - windows[wmWindows[i]].EndTime < 5 * WindowDuration]_vars

\* a closed window whose end is less than 5 x window_duration in the past
\* is no longer held by the manager
C28_DroppedEarly ==
    \E id \in 1..Len(windows) :
        /\ windows[id].Closed
        /\ now - windows[id].EndTime < 5 * WindowDuration
        /\ ~InSeq(id, wmWindows)

\* position of a window in the manager's list, 0 when it is not in it
PositionOf(id) ==
    IF InSeq(id, wmWindows)
    THEN CHOOSE i \in 1..Len(wmWindows) : wmWindows[i] = id
    ELSE 0

\* C29: the CloseExpiredWindows(now) of a flush tick closes the windows of the
\* manager that are open and end strictly before now, changes no other window
\* and nothing else of a window, and returns the windows it closed, each
\* once, in the order of the manager's list.
C29_ClosesExactlyExpired ==
    [][FlushExpiredWindows =>
          LET expired(id) == /\ InSeq(id, wmWindows)
                             /\ ~windows[id].Closed
                             /\ windows[id].EndTime < now
          IN  /\ \A id \in 1..Len(windows) :
                    /\ windows'[id] = IF expired(id)
                                      THEN [windows[id] EXCEPT !.Closed = TRUE]
                                      ELSE windows[id]
                    /\ hist'[id].returned
                           = hist[id].returned + (IF expired(id) THEN 1 ELSE 0)
              /\ onWindowClosed =>
                    /\ \A id \in 1..Len(windows) :
                          expired(id) <=> InSeq(id, closedWindows')
                    /\ \A i, j \in 1..Len(closedWindows') :
                          i < j => PositionOf(closedWindows'[i])
                                       < PositionOf(closedWindows'[j])
              /\ wmWindows' = wmWindows]_vars

\* one call closed and returned two windows, in the order of their insertion,
\* the first inserted being the later one in time
C29_Witness ==
    /\ closedWindows = <<1, 2>>
    /\ windows[1].StartTime > windows[2].StartTime
    /\ windows[1].Closed /\ windows[2].Closed
    /\ hist[1].returned = 1 /\ hist[2].returned = 1

\* the instants at which the predicates of a window are evaluated
Instants == 0..(MaxTime + WindowDuration)

\* C30: for every window and instant t, IsActive(t) is "not closed and
\* t < end" and ShouldClose(t) is "not closed and t > end": never both, both
\* false at t = end, both false for a closed window; and GetOrCreateWindow
\* of an instant that is the end of a window returns another window, which
\* starts at that instant.
C30_ActiveAndShouldCloseExclusive ==
    /\ \A id \in 1..Len(windows), t \in Instants :
          LET tw == windows[id]
          IN  /\ IsActive(tw, t) <=> (~tw.Closed /\ t < tw.EndTime)
              /\ ShouldClose(tw, t) <=> (~tw.Closed /\ t > tw.EndTime)
              /\ ~(IsActive(tw, t) /\ ShouldClose(tw, t))
              /\ t = tw.EndTime => ~IsActive(tw, t) /\ ~ShouldClose(tw, t)
              /\ tw.Closed => ~IsActive(tw, t) /\ ~ShouldClose(tw, t)
              /\ (~tw.Closed /\ t /= tw.EndTime)
                     => (IsActive(tw, t) \/ ShouldClose(tw, t))
    /\ \A k \in 1..Len(gocLog), id \in 1..Len(windows) :
          gocLog[k].t = windows[id].EndTime =>
              /\ gocLog[k].window /= id
              /\ windows[gocLog[k].window].StartTime = windows[id].EndTime

\* GetOrCreateWindow was called with the end of an open window and returned
\* the next window, another window being closed
C30_Witness ==
    /\ \E k \in 1..Len(gocLog), id \in 1..Len(windows) :
          /\ gocLog[k].t = windows[id].EndTime
          /\ ~windows[id].Closed
          /\ windows[gocLog[k].window].StartTime = windows[id].EndTime
    /\ \E id \in 1..Len(windows) : windows[id].Closed

\* C31: Cleanup(keep) never removes an open window, removes exactly the closed
\* windows whose end is at least keep before the current time, keeps every
\* other closed window, keeps the retained windows in their order, and touches
\* no window object.
C31_CleanupRemovesOldClosedOnly ==
    [][ \A keepDuration \in KeepDurations :
          (wmWindows' /= wmWindows /\ WmCleanup(keepDuration)) =>
              /\ \A i \in 1..Len(wmWindows) :
                    LET id == wmWindows[i]
                        old == now - windows[id].EndTime >= keepDuration
                    IN  InSeq(id, wmWindows') <=> (~windows[id].Closed \/ ~old)
              /\ \A i \in 1..Len(wmWindows') : InSeq(wmWindows'[i], wmWindows)
              /\ \A i, j \in 1..Len(wmWindows') :
                    i < j => PositionOf(wmWindows'[i]) < PositionOf(wmWindows'[j])
              /\ windows' = windows ]_vars

\* a closed window was dropped by Cleanup while the manager still holds a
\* closed window and an open one
C31_Witness ==
    /\ \E id \in 1..Len(windows) : windows[id].Closed /\ ~InSeq(id, wmWindows)
    /\ \E i, j \in 1..Len(wmWindows) :
          /\ windows[wmWindows[i]].Closed
          /\ ~windows[wmWindows[j]].Closed

\* C32: while the flush loop runs (it has neither returned on ctx.Done() nor
\* been unwound by a panic of the callback) and its ticks are fair, every open
\* window whose end lies before the current time is eventually closed and,
\* with a callback registered, handed to the callback; this includes the
\* second window of a bucket, created by a late event after the first window
\* of the bucket was closed.
C32_ExpiredWindowsEventuallyDelivered ==
    \A id \in 1..MaxCalls :
        (id <= Len(windows) /\ ShouldClose(windows[id], now))
            ~> \/ flushPc \in {"stopped", "panicked"}
               \/ /\ id <= Len(windows)
                  /\ windows[id].Closed
                  /\ hist[id].returned >= 1
                  /\ onWindowClosed => hist[id].delivered >= 1

\* a bucket was closed and delivered, a late event made a second window of the
\* same bucket, and that window was closed and delivered too
C32_Witness ==
    \E id, late \in 1..Len(windows) :
        /\ id < late
        /\ windows[id].StartTime = windows[late].StartTime
        /\ onWindowClosed
        /\ hist[id].delivered >= 1
        /\ windows[late].Closed
        /\ hist[late].delivered >= 1
        /\ flushPc = "select"

\* C33: the callback invocations of the flush loop are serial and finish
\* before cleanup and before the next tick.  While an invocation is in
\* progress the loop is at one position of the list the tick closed: neither a
\* new tick nor cleanup can start, the windows before that position have been
\* delivered and the others not yet.  When the loop is at cleanup or back at
\* its select, every window a tick closed has been delivered; so a window that
\* is no longer in the WindowManager has been delivered.
C33_CallbacksSerialBeforeCleanup ==
    /\ flushPc = "callback" =>
          /\ cbIdx \in 1..Len(closedWindows)
          /\ ~ENABLED FlushExpiredWindows
          /\ ~ENABLED Cleanup
          /\ \A k \in 1..Len(closedWindows) :
                hist[closedWindows[k]].delivered = (IF k < cbIdx THEN 1 ELSE 0)
    /\ (onWindowClosed /\ flushPc \in {"cleanup", "select", "stopped"}) =>
          \A id \in 1..Len(windows) :
              hist[id].returned >= 1 => hist[id].delivered >= 1
    /\ onWindowClosed =>
          \A id \in 1..Len(windows) :
              ~InSeq(id, wmWindows) => hist[id].delivered >= 1

\* two windows were closed and delivered, and cleanup has then removed the
\* older one from the WindowManager
C33_Witness ==
    /\ onWindowClosed
    /\ Len(windows) = 2
    /\ hist[1].delivered = 1
    /\ hist[2].delivered = 1
    /\ ~InSeq(1, wmWindows)
    /\ InSeq(2, wmWindows)
    /\ flushPc = "select"

\* C34: an iteration of the batch loop handles its item and goes on to the
\* next one whatever happened to the earlier items: the item gets its defaults
\* and, when it has a type, is try-sent; it is accepted exactly when the queue
\* has a free slot at that moment and rejected otherwise, and in both cases the
\* loop moves to the next position.
C34_FullQueueDoesNotStopBatch ==
    [][ \A r \in BatchRequests :
          HandleBatchItem(r) =>
              LET i == batches[r].i
                  item == batches[r].body.items[i]
                  sent == <<r, i>>
              IN  /\ batches'[r].state = "loop"
                  /\ batches'[r].i = i + 1
                  /\ IF item.Type /= "" /\ Len(eventQueue) < BufferSize
                     THEN /\ accepted' = Append(accepted, sent)
                          /\ Len(eventQueue') = Len(eventQueue) + 1
                          /\ eventQueue'[Len(eventQueue')].req = sent
                          /\ eventQueue'[Len(eventQueue')].event.Type = item.Type
                          /\ eventQueue'[Len(eventQueue')].event.Timestamp /= ZeroTime
                          /\ eventQueue'[Len(eventQueue')].event.ID /= ""
                          /\ batches'[r].accepted = batches[r].accepted + 1
                          /\ batches'[r].rejected = batches[r].rejected
                     ELSE /\ accepted' = accepted
                          /\ eventQueue' = eventQueue
                          /\ batches'[r].accepted = batches[r].accepted
                          /\ batches'[r].rejected = batches[r].rejected + 1 ]_vars

\* a batch was answered in which an item with a type was rejected (the queue
\* was full) and a later item was accepted
C34_Witness ==
    \E r \in 1..Len(batches) :
        /\ batches[r].state = "done"
        /\ batches[r].status = 202
        /\ \E j, k \in 1..Len(batches[r].body.items) :
              /\ j < k
              /\ batches[r].body.items[j].Type /= ""
              /\ ~InSeq(<<r, j>>, accepted)
              /\ InSeq(<<r, k>>, accepted)

\* the event's page, element or amount is absent or of another JSON type
Mistyped(e) ==
    CASE e.Type = "pageview" -> ~IsString(e, "page")
      [] e.Type = "click" -> ~IsString(e, "element")
      [] e.Type = "purchase" -> ~IsNumber(e, "amount")
      [] OTHER -> FALSE

\* the counter of the event's type: pageviews, clicks or purchases
TypeCounter(e) == e.Type \o "s"

\* the global metric name is neither created nor changed by the step
Untouched(name) ==
    /\ name \in DOMAIN globalMetrics' <=> name \in DOMAIN globalMetrics
    /\ name \in DOMAIN globalMetrics => globalMetrics'[name] = globalMetrics[name]

\* C35: a property of the wrong type never fails the event.  ProcessEvent
\* counts the event in total_events whatever it carries; for a pageview
\* without a string page, a click without a string element or a purchase
\* without a numeric amount, updateGlobalMetrics increments events_by_type of
\* the type and pageviews, clicks or purchases, touches no other metric apart
\* from unique_users and unique_sessions (so neither unique_pages, page_views:*,
\* clicks:*, revenue nor revenue_histogram), and the call goes on to its
\* window, whose events counter it increments.
C35_WrongTypeSkipped ==
    [][ /\ \A c \in Callers :
              (\E e \in MistypedInputs : ProcessEvent(c, e)) =>
                  CountOf(globalMetrics', "total_events")
                      = CountOf(globalMetrics, "total_events") + 1
        /\ \A c \in Callers :
              (UpdateGlobalMetrics(c) /\ Mistyped(cur[c])) =>
                  /\ CountOf(globalMetrics', EventTypeKey(cur[c]))
                        = CountOf(globalMetrics, EventTypeKey(cur[c])) + 1
                  /\ CountOf(globalMetrics', TypeCounter(cur[c]))
                        = CountOf(globalMetrics, TypeCounter(cur[c])) + 1
                  /\ \A name \in DOMAIN globalMetrics \cup DOMAIN globalMetrics' :
                        name \notin {EventTypeKey(cur[c]), TypeCounter(cur[c]),
                                     "unique_users", "unique_sessions"}
                            => Untouched(name)
                  /\ pc'[c] = "get_window"
        /\ \A c \in Callers :
              (UpdateWindowMetrics(c) /\ Mistyped(cur[c])) =>
                  /\ CountOf(windows'[win[c]].Metrics, "events")
                        = CountOf(windows[win[c]].Metrics, "events") + 1
                  /\ pc'[c] = "idle" ]_vars

\* a pageview whose page is a number was processed after a pageview of /home:
\* both are counted, unique_pages and page_views:/home hold the first only
C35_Witness ==
    /\ AllIdle
    /\ Event("pageview", 0, "u2", "", "page" :> Num(7)) \in DOMAIN processed
    /\ CountOf(globalMetrics, "total_events") = 2
    /\ CountOf(globalMetrics, "pageviews") = 2
    /\ CountOf(globalMetrics, "unique_pages") = 1
    /\ CountOf(globalMetrics, "page_views:/home") = 1
    /\ Cardinality(DOMAIN globalMetrics) = 7

KnownTypes == {"pageview", "click", "purchase"}

\* the strings of a UniqueSet metric of the global metrics, none when the
\* metric was never created
SetOf(name) ==
    IF name \in DOMAIN globalMetrics THEN globalMetrics[name].UniqueSet ELSE {}

\* C36: an event whose type is none of pageview, click, purchase is counted in
\* total_events and in events_by_type:<type>, its user id and session id are
\* added to unique_users and unique_sessions when they are not empty (the sets
\* keep their strings otherwise), and no other global metric is created or
\* changed: pageviews, clicks, purchases, revenue, revenue_histogram,
\* unique_pages, page_views:* and clicks:* stay as they are.
C36_OtherTypesUpdateOnlyCommonMetrics ==
    [][ /\ \A c \in Callers :
              (\E e \in OtherTypeInputs : ProcessEvent(c, e)) =>
                  /\ CountOf(globalMetrics', "total_events")
                        = CountOf(globalMetrics, "total_events") + 1
                  /\ \A name \in DOMAIN globalMetrics \cup DOMAIN globalMetrics' :
                        name /= "total_events" => Untouched(name)
        /\ \A c \in Callers :
              (UpdateGlobalMetrics(c) /\ cur[c].Type \notin KnownTypes) =>
                  /\ CountOf(globalMetrics', EventTypeKey(cur[c]))
                        = CountOf(globalMetrics, EventTypeKey(cur[c])) + 1
                  /\ globalMetrics'["unique_users"].UniqueSet
                        = SetOf("unique_users")
                            \cup (IF cur[c].UserID /= "" THEN {cur[c].UserID} ELSE {})
                  /\ globalMetrics'["unique_sessions"].UniqueSet
                        = SetOf("unique_sessions")
                            \cup (IF cur[c].SessionID /= "" THEN {cur[c].SessionID} ELSE {})
                  /\ CountOf(globalMetrics', "unique_users")
                        = Cardinality(globalMetrics'["unique_users"].UniqueSet)
                  /\ CountOf(globalMetrics', "unique_sessions")
                        = Cardinality(globalMetrics'["unique_sessions"].UniqueSet)
                  /\ \A name \in DOMAIN globalMetrics \cup DOMAIN globalMetrics' :
                        name \notin {EventTypeKey(cur[c]), "unique_users",
                                     "unique_sessions"}
                            => Untouched(name) ]_vars

\* an event of type scroll, with no user and no session but with a page, was
\* processed after a pageview of the same page
C36_Witness ==
    /\ AllIdle
    /\ Event("scroll", 1, "", "", "page" :> Str("/home")) \in DOMAIN processed
    /\ CountOf(globalMetrics, "total_events") = 2
    /\ CountOf(globalMetrics, "events_by_type:scroll") = 1
    /\ CountOf(globalMetrics, "pageviews") = 1
    /\ CountOf(globalMetrics, "page_views:/home") = 1
    /\ CountOf(globalMetrics, "unique_users") = 1

\* floor(t, d): the largest multiple of d that is not after t
Floor(t, d) == (t \div d) * d

\* the open windows of the manager that start at windowStart
OpenAt(windowStart) ==
    { id \in 1..Len(windows) :
        /\ InSeq(id, wmWindows)
        /\ ~windows[id].Closed
        /\ windows[id].StartTime = windowStart }

\* C37: window assignment is by event timestamp.  Whatever the wall clock and
\* whatever was processed before, ProcessEvent counts the event in the global
\* metrics, GetOrCreateWindow gives it a window that starts at
\* floor(timestamp, duration) (an open window of the manager with that start
\* when there is one, a new window otherwise), and updateWindowMetrics updates
\* that window and no other.
C37_WindowByEventTimestamp ==
    [][ /\ \A c \in Callers :
              (\E e \in EventInputs : ProcessEvent(c, e)) =>
                  CountOf(globalMetrics', "total_events")
                      = CountOf(globalMetrics, "total_events") + 1
        /\ \A c \in Callers :
              GetOrCreateWindow(c) =>
                  LET windowStart == Floor(cur[c].Timestamp, WindowDuration)
                  IN  /\ windows'[win'[c]].StartTime = windowStart
                      /\ windows'[win'[c]].EndTime = windowStart + WindowDuration
                      /\ IF OpenAt(windowStart) /= {}
                         THEN /\ win'[c] \in OpenAt(windowStart)
                              /\ windows' = windows
                              /\ wmWindows' = wmWindows
                         ELSE /\ win'[c] = Len(windows) + 1
                              /\ Len(windows') = Len(windows) + 1
        /\ \A c \in Callers :
              UpdateWindowMetrics(c) =>
                  /\ windows[win[c]].StartTime
                        = Floor(cur[c].Timestamp, WindowDuration)
                  /\ CountOf(windows'[win[c]].Metrics, "events")
                        = CountOf(windows[win[c]].Metrics, "events") + 1
                  /\ \A id \in 1..Len(windows) :
                        id /= win[c] => windows'[id] = windows[id] ]_vars

\* the event of time 1 is in the window [0, 2), and the older event of time 0
\* has been given that window, still open, while the wall clock is far past
\* the window's end
C37_Witness ==
    /\ now = MaxTime
    /\ Len(windows) = 1
    /\ ~windows[1].Closed
    /\ CountOf(windows[1].Metrics, "events") = 1
    /\ Event("pageview", 1, "u2", "", "page" :> Str("/home")) \in DOMAIN processed
    /\ \E c \in Callers :
          /\ pc[c] = "update_window"
          /\ cur[c].Timestamp = 0
          /\ win[c] = 1
          /\ CountOf(globalMetrics, "total_events") = 2

\* sum of the events counters of the windows 1..n ever created
RECURSIVE WindowEventsUpTo(_)
WindowEventsUpTo(n) ==
    IF n = 0 THEN 0
    ELSE CountOf(windows[n].Metrics, "events") + WindowEventsUpTo(n - 1)

\* sum of the events:<type> counters of a window's snapshot over the types T
RECURSIVE TypedEvents(_, _)
TypedEvents(ms, T) ==
    IF T = {} THEN 0
    ELSE LET t == CHOOSE x \in T : TRUE
         IN  CountOf(ms, "events:" \o t) + TypedEvents(ms, T \ {t})

\* the invariants of C38 in a state where no ProcessEvent is in progress
WindowCountsAddUp ==
    /\ WindowEventsUpTo(Len(windows)) = CountOf(globalMetrics, "total_events")
    /\ \A id \in 1..Len(windows) :
          CountOf(windows[id].Metrics, "events")
              = TypedEvents(windows[id].Metrics, TypesUsed)

\* C38: each ProcessEvent increments by 1 the events counter of exactly one
\* window, together with that window's events:<type> counter; so whenever no
\* ProcessEvent is in progress the events counts of all the windows ever
\* created (open, closed, or dropped by cleanup) add up to total_events, and in
\* each window events is the sum of its events:<type> counts.
C38_WindowEventsAddUpToTotal ==
    [][ /\ \A c \in Callers :
              UpdateWindowMetrics(c) =>
                  /\ CountOf(windows'[win[c]].Metrics, "events")
                        = CountOf(windows[win[c]].Metrics, "events") + 1
                  /\ CountOf(windows'[win[c]].Metrics, "events:" \o cur[c].Type)
                        = CountOf(windows[win[c]].Metrics, "events:" \o cur[c].Type) + 1
                  /\ \A id \in 1..Len(windows) :
                        id /= win[c] => windows'[id] = windows[id]
        /\ (\A c \in Callers : ~UpdateWindowMetrics(c)) =>
              \A id \in 1..Len(windows) :
                  windows'[id].Metrics = windows[id].Metrics
        /\ AllIdle' => WindowCountsAddUp' ]_vars

\* two events of different types were processed, the window of the first was
\* closed and dropped by cleanup before the second arrived, and no call is in
\* progress
C38_Witness ==
    /\ AllIdle
    /\ CountOf(globalMetrics, "total_events") = 2
    /\ Len(windows) = 2
    /\ windows[1].Closed
    /\ ~InSeq(1, wmWindows)
    /\ CountOf(windows[1].Metrics, "events") = 1
    /\ CountOf(windows[2].Metrics, "events") = 1
    /\ \E s, t \in TypesUsed :
          /\ s /= t
          /\ CountOf(windows[1].Metrics, "events:" \o s) = 1
          /\ CountOf(windows[2].Metrics, "events:" \o t) = 1

\* C39 (as claimed): no event enters the queue after main has called cancel()
\* on the workers' context: the events accepted are those accepted when
\* cancel() was called, also when srv.Shutdown returned on its timeout.
C39_NoEnqueueAfterCancel ==
    workerCtxDone => Len(accepted) = cancelMark

\* srv.Shutdown has returned while a handler was still running, cancel() was
\* called with the queue not full, and the handler has yet to make its send
C39_HandlerPendingAfterCancel ==
    /\ workerCtxDone
    /\ Running
    /\ Len(eventQueue) < BufferSize
    /\ \E r \in 1..Len(reqs) :
          /\ reqs[r].state = "inflight"
          /\ ~BindFails(reqs[r].body)

\* C40 (as claimed): whenever GetStats can run, the unique_users and
\* unique_sessions it reports are the counts of the unique_users and
\* unique_sessions UniqueSet metrics, the numbers of distinct non-empty user
\* ids and session ids processed so far.
C40_StatsReportUniqueCounts ==
    RLockFree =>
        /\ GetStats.unique_users = CountOf(globalMetrics, "unique_users")
        /\ GetStats.unique_sessions = CountOf(globalMetrics, "unique_sessions")

\* events of two users were processed and GetStats still reports no user
C40_StatsReportZeroUsers ==
    /\ AllIdle
    /\ CountOf(globalMetrics, "unique_users") = 2
    /\ GetStats.unique_users = 0

====
